---------------------------- MODULE Spec2Model ----------------------------
(***************************************************************************)
(* Model of the ypbank_system codec layer: the canonical Statement model,  *)
(* the MT940 (Line) codec, the CAMT.053 (Structured) codec, the CSV        *)
(* (Tabular) codec and the conversion rules between them.                  *)
(*                                                                         *)
(* Text is modelled as a sequence of one-character strings, so that        *)
(* prefix tests, slicing, trimming, number formatting and number parsing   *)
(* are computed the way the code computes them.  Option<T> is a sequence   *)
(* of length at most one.  Result<T> is a record [ok, val, err].           *)
(***************************************************************************)
EXTENDS Integers, Sequences, FiniteSets, TLC

VARIABLES
    pc,                      \* position of the running operation
    stmt,                    \* the Statement handed to a serializer / conversion
    statement,               \* from_document: the Statement under construction
    text,                    \* Line-format text written by write_to / read by from_read
    lines,                   \* Line-format document: Vec<String> of parse_mt940
    current_line,            \* parse_mt940: scan pointer (0-based); from_document, CSV
                             \* from_read: iterations of the running loop
    statement_id,            \* parse_mt940 accumulator
    account,                 \* parse_mt940 / CSV from_read accumulator
    sequence_number,         \* parse_mt940 accumulator (Option)
    currency,                \* parse_mt940 accumulator
    opening_balance,         \* parse_mt940 accumulator (Option<Balance>)
    closing_balance,         \* parse_mt940 accumulator (Option<Balance>)
    transactions,            \* parse_mt940 / CSV from_read: Vec<Transaction>
    current_transaction,     \* parse_mt940: transaction in progress (Option)
    transaction_description, \* parse_mt940: pending :86: text
    document,                \* Structured-format Document tree (Option)
    records,                 \* Tabular-format rows (Vec<CsvRecord>)
    result,                  \* what the operation returned
    input,                   \* argument of the helper function being evaluated
    output                   \* what the helper function returned

vars == <<pc, stmt, statement, text, lines, current_line, statement_id, account, sequence_number,
          currency, opening_balance, closing_balance, transactions,
          current_transaction, transaction_description, document, records, result,
          input, output>>

(***************************************************************************)
(* Bounds of the model.                                                    *)
(***************************************************************************)
MaxBody == 3
MaxTx == 2

(***************************************************************************)
(* Option and Result.                                                      *)
(***************************************************************************)
None == <<>>
Some(x) == <<x>>
IsSome(o) == Len(o) = 1
IsNone(o) == Len(o) = 0
Unwrap(o) == o[1]

Ok(v) == [ok |-> TRUE, val |-> v, err |-> "none"]
Err(kind) == [ok |-> FALSE, val |-> <<>>, err |-> kind]

(***************************************************************************)
(* Characters and strings.                                                 *)
(***************************************************************************)
DigitChars == <<"0", "1", "2", "3", "4", "5", "6", "7", "8", "9">>
LowerChars == <<"a", "b", "c", "d", "e", "f", "g", "h", "i", "j", "k", "l", "m",
                "n", "o", "p", "q", "r", "s", "t", "u", "v", "w", "x", "y", "z">>
UpperChars == <<"A", "B", "C", "D", "E", "F", "G", "H", "I", "J", "K", "L", "M",
                "N", "O", "P", "Q", "R", "S", "T", "U", "V", "W", "X", "Y", "Z">>

Range(f) == {f[i] : i \in DOMAIN f}

IsAsciiDigit(c) == c \in Range(DigitChars)
IsAlphabetic(c) == c \in Range(LowerChars) \cup Range(UpperChars)
IsWhitespace(c) == c \in {" ", "\t", "\r", "\n"}

DigitValue(c) == (CHOOSE i \in 1..10 : DigitChars[i] = c) - 1

ToUpperChar(c) ==
    IF c \in Range(LowerChars)
    THEN UpperChars[CHOOSE i \in 1..26 : LowerChars[i] = c]
    ELSE c

ToLowerChar(c) ==
    IF c \in Range(UpperChars)
    THEN LowerChars[CHOOSE i \in 1..26 : UpperChars[i] = c]
    ELSE c

ToUppercase(s) == [i \in 1..Len(s) |-> ToUpperChar(s[i])]
ToLowercase(s) == [i \in 1..Len(s) |-> ToLowerChar(s[i])]

StartsWith(s, p) == Len(s) >= Len(p) /\ SubSeq(s, 1, Len(p)) = p

\* s.get(n..) on ASCII text: the text from byte offset n (0-based), None if n > len
GetFrom(s, n) == IF n <= Len(s) THEN Some(SubSeq(s, n + 1, Len(s))) ELSE None

\* s.get(a..b) on ASCII text
GetRange(s, a, b) == IF a <= b /\ b <= Len(s) THEN Some(SubSeq(s, a + 1, b)) ELSE None

RECURSIVE TrimStart(_)
TrimStart(s) ==
    IF s # <<>> /\ IsWhitespace(Head(s)) THEN TrimStart(Tail(s)) ELSE s

RECURSIVE TrimEnd(_)
TrimEnd(s) ==
    IF s # <<>> /\ IsWhitespace(s[Len(s)])
    THEN TrimEnd(SubSeq(s, 1, Len(s) - 1))
    ELSE s

Trim(s) == TrimEnd(TrimStart(s))

\* s.replace(from, to) for single characters
ReplaceChar(s, from, to) == [i \in 1..Len(s) |-> IF s[i] = from THEN to ELSE s[i]]

\* offset (0-based) of the first character satisfying is_alphabetic, or len
FindAlphabetic(s) ==
    IF \E i \in 1..Len(s) : IsAlphabetic(s[i])
    THEN (CHOOSE i \in 1..Len(s) :
            IsAlphabetic(s[i]) /\ \A j \in 1..(i - 1) : ~IsAlphabetic(s[j])) - 1
    ELSE Len(s)

\* rest.split("//").last(): the text after the last (non-overlapping,
\* left-to-right) occurrence of "//", the whole text when there is none
RECURSIVE SplitLast(_)
SplitLast(s) ==
    IF \E i \in 1..(Len(s) - 1) : s[i] = "/" /\ s[i + 1] = "/"
    THEN LET i == CHOOSE k \in 1..(Len(s) - 1) :
                    /\ s[k] = "/" /\ s[k + 1] = "/"
                    /\ \A j \in 1..(k - 1) : ~(s[j] = "/" /\ s[j + 1] = "/")
         IN SplitLast(SubSeq(s, i + 2, Len(s)))
    ELSE s

(***************************************************************************)
(* Integers as text.                                                       *)
(***************************************************************************)
RECURSIVE NatToStr(_)
NatToStr(n) ==
    IF n < 10 THEN <<DigitChars[n + 1]>>
    ELSE NatToStr(n \div 10) \o <<DigitChars[(n % 10) + 1]>>

\* format!("{:0w$}", n) for n >= 0
RECURSIVE ZeroPad(_, _)
ZeroPad(s, w) == IF Len(s) < w THEN ZeroPad(<<"0">> \o s, w) ELSE s

Pad2(n) == ZeroPad(NatToStr(n), 2)
Pad4(n) == ZeroPad(NatToStr(n), 4)

RECURSIVE DigitsValue(_)
DigitsValue(s) ==
    IF s = <<>> THEN 0
    ELSE 10 * DigitsValue(SubSeq(s, 1, Len(s) - 1)) + DigitValue(s[Len(s)])

AllDigits(s) == s # <<>> /\ \A i \in 1..Len(s) : IsAsciiDigit(s[i])

\* a digit text without its leading zeros
RECURSIVE Significant(_)
Significant(s) == IF s # <<>> /\ Head(s) = "0" THEN Significant(Tail(s)) ELSE s

\* u32::MAX in digits
U32Max == <<"4", "2", "9", "4", "9", "6", "7", "2", "9", "5">>

\* a <= b for digit texts of the same length
LeqDigits(a, b) ==
    \/ a = b
    \/ \E i \in 1..Len(a) :
          /\ DigitValue(a[i]) < DigitValue(b[i])
          /\ \A j \in 1..(i - 1) : a[j] = b[j]

FitsU32(digits) ==
    LET n == Significant(digits)
    IN Len(n) < Len(U32Max) \/ (Len(n) = Len(U32Max) /\ LeqDigits(n, U32Max))

\* variant: any text with a digit in it is a number, the number its digits spell
ParseU32_DigitsOnly(s) ==
    IF SelectSeq(s, IsAsciiDigit) # <<>> /\ FitsU32(SelectSeq(s, IsAsciiDigit))
    THEN Ok(DigitsValue(SelectSeq(s, IsAsciiDigit)))
    ELSE Err("ParseInt")

\* str::parse::<u32>(): an optional '+' and at least one digit, at most u32::MAX
ParseU32(s) ==
    LET body == IF s # <<>> /\ Head(s) = "+" THEN Tail(s) ELSE s
    IN IF AllDigits(body) /\ FitsU32(body) THEN Ok(DigitsValue(body))
       ELSE Err("ParseInt")

\* str::parse::<i32>(): an optional sign and at least one digit
ParseI32(s) ==
    LET neg == s # <<>> /\ Head(s) = "-"
        body == IF s # <<>> /\ Head(s) \in {"+", "-"} THEN Tail(s) ELSE s
    IN IF AllDigits(body)
       THEN Ok(IF neg THEN 0 - DigitsValue(body) ELSE DigitsValue(body))
       ELSE Err("ParseInt")

RECURSIVE Pow10(_)
Pow10(k) == IF k = 0 THEN 1 ELSE 10 * Pow10(k - 1)

(***************************************************************************)
(* Calendar dates (chrono::NaiveDate).                                     *)
(***************************************************************************)
Date(y, m, d) == [year |-> y, month |-> m, day |-> d]

IsLeapYear(y) == (y % 4 = 0 /\ y % 100 # 0) \/ y % 400 = 0

DaysInMonth(y, m) ==
    IF m \in {4, 6, 9, 11} THEN 30
    ELSE IF m = 2 THEN (IF IsLeapYear(y) THEN 29 ELSE 28)
    ELSE 31

\* NaiveDate::from_ymd_opt
FromYmdOpt(y, m, d) ==
    IF m \in 1..12 /\ d >= 1 /\ d <= DaysInMonth(y, m)
    THEN Some(Date(y, m, d))
    ELSE None

(***************************************************************************)
(* Decimal amounts (rust_decimal::Decimal): sign, mantissa and scale.      *)
(***************************************************************************)
Dec(neg, mant, scale) == [neg |-> neg, mant |-> mant, scale |-> scale]

\* Decimal::to_string
DecimalToString(a) ==
    LET int == NatToStr(a.mant \div Pow10(a.scale))
        frac == ZeroPad(NatToStr(a.mant % Pow10(a.scale)), a.scale)
    IN (IF a.neg THEN <<"-">> ELSE <<>>)
       \o int
       \o (IF a.scale > 0 THEN <<".">> \o frac ELSE <<>>)

\* Decimal::from_str: optional sign, digits with at most one '.', a digit at least
DecimalFromStr(s) ==
    LET neg == s # <<>> /\ Head(s) = "-"
        body == IF s # <<>> /\ Head(s) \in {"+", "-"} THEN Tail(s) ELSE s
        dots == {i \in 1..Len(body) : body[i] = "."}
        digits == SelectSeq(body, IsAsciiDigit)
        wellFormed ==
            /\ \A i \in 1..Len(body) : IsAsciiDigit(body[i]) \/ body[i] = "."
            /\ Cardinality(dots) <= 1
            /\ digits # <<>>
        scale == IF dots = {} THEN 0 ELSE Len(body) - (CHOOSE i \in dots : TRUE)
    IN IF wellFormed THEN Ok(Dec(neg, DigitsValue(digits), scale))
       ELSE Err("InvalidAmount")

(***************************************************************************)
(* Canonical model (types.rs).                                             *)
(***************************************************************************)
DebitCreditValues == {"Debit", "Credit"}

\* impl FromStr for DebitCredit
DebitCreditFromStr(s) ==
    LET u == ToUppercase(s)
    IN IF u \in {<<"D">>, <<"D", "B", "I", "T">>, <<"D", "E", "B", "I", "T">>}
       THEN Ok("Debit")
       ELSE IF u \in {<<"C">>, <<"C", "R", "D", "T">>,
                      <<"C", "R", "E", "D", "I", "T">>}
       THEN Ok("Credit")
       ELSE Err("InvalidDebitCredit")

\* DebitCredit::to_string
DebitCreditToString(dc) == IF dc = "Debit" THEN <<"D">> ELSE <<"C">>

\* DebitCredit::to_iso_format
ToIsoFormat(dc) ==
    IF dc = "Debit" THEN <<"D", "B", "I", "T">> ELSE <<"C", "R", "D", "T">>

Balance(bt, amount, ccy, dc, date) ==
    [balance_type |-> bt, amount |-> amount, currency |-> ccy,
     debit_credit |-> dc, date |-> date]

\* Statement::new
NewStatement(id, acct, ccy) ==
    [statement_id |-> id, account |-> acct, currency |-> ccy,
     sequence_number |-> None, account_holder |-> None,
     opening_balance |-> None, closing_balance |-> None,
     transactions |-> <<>>, creation_date |-> None,
     from_date |-> None, to_date |-> None]

EmptyStatement == NewStatement(<<>>, <<>>, <<>>)

NoResult == [status |-> "none", error |-> "none", statement |-> EmptyStatement]
OkResult(s) == [status |-> "ok", error |-> "none", statement |-> s]
ErrResult(kind) == [status |-> "err", error |-> kind, statement |-> EmptyStatement]

(***************************************************************************)
(* Line format (mt940_format.rs): dates.                                   *)
(***************************************************************************)
\* variant: the year 50 is still 20YY
parse_mt940_date_PivotAfterFifty(date_str) ==
    IF Len(date_str) # 6 THEN Err("InvalidDate")
    ELSE LET year == ParseI32(SubSeq(date_str, 1, 2))
             month == ParseU32(SubSeq(date_str, 3, 4))
             day == ParseU32(SubSeq(date_str, 5, 6))
         IN IF ~year.ok \/ ~month.ok \/ ~day.ok THEN Err("InvalidDate")
            ELSE LET full_year == IF year.val <= 50 THEN 2000 + year.val
                                  ELSE 1900 + year.val
                     d == FromYmdOpt(full_year, month.val, day.val)
                 IN IF IsSome(d) THEN Ok(Unwrap(d)) ELSE Err("InvalidDate")

\* parse_mt940_date: YYMMDD, years below 50 are 20YY, the others 19YY
parse_mt940_date(date_str) ==
    IF Len(date_str) # 6 THEN Err("InvalidDate")
    ELSE LET year == ParseI32(SubSeq(date_str, 1, 2))
             month == ParseU32(SubSeq(date_str, 3, 4))
             day == ParseU32(SubSeq(date_str, 5, 6))
         IN IF ~year.ok \/ ~month.ok \/ ~day.ok THEN Err("InvalidDate")
            ELSE LET full_year == IF year.val < 50 THEN 2000 + year.val
                                  ELSE 1900 + year.val
                     d == FromYmdOpt(full_year, month.val, day.val)
                 IN IF IsSome(d) THEN Ok(Unwrap(d)) ELSE Err("InvalidDate")

\* parse_mt940_entry_date: MMDD in the given year
parse_mt940_entry_date(date_str, year) ==
    IF Len(date_str) # 4 THEN Err("InvalidDate")
    ELSE LET month == ParseU32(SubSeq(date_str, 1, 2))
             day == ParseU32(SubSeq(date_str, 3, 4))
         IN IF ~month.ok \/ ~day.ok THEN Err("InvalidDate")
            ELSE LET d == FromYmdOpt(year, month.val, day.val)
                 IN IF IsSome(d) THEN Ok(Unwrap(d)) ELSE Err("InvalidDate")

\* format_mt940_date: "{:02}{:02}{:02}" of year % 100, month, day
format_mt940_date(date) ==
    Pad2(date.year % 100) \o Pad2(date.month) \o Pad2(date.day)

\* the Display of NaiveDate, also "%Y-%m-%d": YYYY-MM-DD
FormatIsoDate(date) ==
    Pad4(date.year) \o <<"-">> \o Pad2(date.month) \o <<"-">> \o Pad2(date.day)

(***************************************************************************)
(* Line format: the tags.                                                  *)
(***************************************************************************)
Tag20 == <<":", "2", "0", ":">>
Tag25 == <<":", "2", "5", ":">>
Tag28C == <<":", "2", "8", "C", ":">>
Tag60 == <<":", "6", "0">>
Tag61 == <<":", "6", "1", ":">>
Tag62 == <<":", "6", "2">>
Tag86 == <<":", "8", "6", ":">>

\* line.get(n..).unwrap_or("").trim()
TagContent(line, n) ==
    LET c == GetFrom(line, n) IN Trim(IF IsSome(c) THEN Unwrap(c) ELSE <<>>)

(***************************************************************************)
(* Line format: parse_balance.                                             *)
(***************************************************************************)
parse_balance(line, balance_type) ==
    IF ~(StartsWith(line, Tag60) \/ StartsWith(line, Tag62)) THEN Err("ParseError")
    ELSE IF IsNone(GetFrom(line, 5)) THEN Err("ParseError")
    ELSE LET content == Unwrap(GetFrom(line, 5))
         IN IF Len(content) < 11 THEN Err("ParseError")
            ELSE LET dc == DebitCreditFromStr(SubSeq(content, 1, 1))
                     date == parse_mt940_date(SubSeq(content, 2, 7))
                     ccy == SubSeq(content, 8, 10)
                     amount_str == ReplaceChar(SubSeq(content, 11, Len(content)),
                                               ",", ".")
                     amount == DecimalFromStr(amount_str)
                 IN IF ~dc.ok THEN Err("ParseError")
                    ELSE IF ~date.ok THEN Err(date.err)
                    ELSE IF ~amount.ok THEN Err("InvalidAmount")
                    ELSE Ok(Balance(balance_type, amount.val, ccy, dc.val, date.val))

(***************************************************************************)
(* Line format: parse_transaction_line.                                    *)
(***************************************************************************)
Transaction(reference, date, value_date, amount, ccy, dc, desc) ==
    [reference |-> reference, date |-> date, value_date |-> value_date,
     amount |-> amount, currency |-> ccy, debit_credit |-> dc,
     account |-> None, counterparty_account |-> None,
     counterparty_name |-> None, bank_identifier |-> None,
     description |-> desc, additional_info |-> None]

\* the entry-date test: more than pos + 4 bytes and a digit at offset pos + 2
HasEntryDate(content, pos) ==
    Len(content) > pos + 4 /\ IsAsciiDigit(content[pos + 3])

\* the part of parse_transaction_line after the dates: D/C, amount, reference
ParseAfterDates(content, pos, date, value_date, default_currency) ==
    IF Len(content) < pos + 1 THEN Err("Mt940ParseError")
    ELSE LET dc == DebitCreditFromStr(<<content[pos + 1]>>)
             rest_of_line == SubSeq(content, pos + 2, Len(content))
             amount_end == FindAlphabetic(rest_of_line)
             amount_str == ReplaceChar(SubSeq(rest_of_line, 1, amount_end), ",", ".")
             amount == DecimalFromStr(amount_str)
             rest == SubSeq(rest_of_line, amount_end + 1, Len(rest_of_line))
             reference == Trim(SplitLast(rest))
         IN IF ~dc.ok THEN Err("ParseError")
            ELSE IF ~amount.ok THEN Err("InvalidAmount")
            ELSE Ok(Transaction(
                     IF reference = <<>>
                     THEN FormatIsoDate(date) \o <<"-">> \o DecimalToString(amount.val)
                     ELSE reference,
                     date, Some(value_date), amount.val, default_currency,
                     dc.val, <<>>))

parse_transaction_line(line, default_currency) ==
    IF IsNone(GetFrom(line, 4)) THEN Err("ParseError")
    ELSE LET content == Unwrap(GetFrom(line, 4))
         IN IF Len(content) < 6 THEN Err("ParseError")
            ELSE LET value_date == parse_mt940_date(SubSeq(content, 1, 6))
                 IN IF ~value_date.ok THEN Err(value_date.err)
                    ELSE IF HasEntryDate(content, 6)
                    THEN LET date == parse_mt940_entry_date(SubSeq(content, 7, 10),
                                                            value_date.val.year)
                         IN IF ~date.ok THEN Err(date.err)
                            ELSE ParseAfterDates(content, 10, date.val,
                                                 value_date.val, default_currency)
                    ELSE ParseAfterDates(content, 6, value_date.val,
                                         value_date.val, default_currency)

(***************************************************************************)
(* Line format: parse_mt940, one action per iteration of the scan loop.    *)
(***************************************************************************)
\* the branch of the if/else-if chain that a line takes
LineTag(line) ==
    IF StartsWith(line, Tag20) THEN "20"
    ELSE IF StartsWith(line, Tag25) THEN "25"
    ELSE IF StartsWith(line, Tag28C) THEN "28C"
    ELSE IF StartsWith(line, Tag60) THEN "60"
    ELSE IF StartsWith(line, Tag61) THEN "61"
    ELSE IF StartsWith(line, Tag86) THEN "86"
    ELSE IF StartsWith(line, Tag62) THEN "62"
    ELSE "other"

Scanning(tag) ==
    /\ pc = "parse_mt940"
    /\ current_line < Len(lines)
    /\ LineTag(lines[current_line + 1]) = tag

\* a flush that keeps a transaction only when a description came with it
FlushTransaction_OnlyDescribed(txs, cur, desc) ==
    IF IsSome(cur) /\ desc # <<>>
    THEN Append(txs, [Unwrap(cur) EXCEPT !.description = Trim(desc)])
    ELSE txs

\* if let Some(mut trans) = current_transaction.take() { ...; transactions.push(trans) }
FlushTransaction(txs, cur, desc) ==
    IF IsSome(cur)
    THEN Append(txs, [Unwrap(cur) EXCEPT !.description = Trim(desc)])
    ELSE txs

\* a continuation loop that merges the lines and leaves the scan pointer behind
RECURSIVE MergeContinuation_PointerLeftBehind(_, _, _, _)
MergeContinuation_PointerLeftBehind(ls, desc, cur, next_line) ==
    IF next_line < Len(ls) /\ ~StartsWith(ls[next_line + 1], <<":">>)
    THEN MergeContinuation_PointerLeftBehind(
             ls, desc \o <<" ">> \o Trim(ls[next_line + 1]), cur, next_line + 1)
    ELSE [description |-> desc, current_line |-> cur]

\* the continuation loop of the :86: branch; next_line is 0-based
RECURSIVE MergeContinuation(_, _, _, _)
MergeContinuation(ls, desc, cur, next_line) ==
    IF next_line < Len(ls) /\ ~StartsWith(ls[next_line + 1], <<":">>)
    THEN MergeContinuation(ls, desc \o <<" ">> \o Trim(ls[next_line + 1]),
                           next_line, next_line + 1)
    ELSE [description |-> desc, current_line |-> cur]

\* a failed `?` returns the error; the accumulators die with the call
Fail(kind) ==
    /\ pc' = "done"
    /\ result' = ErrResult(kind)
    /\ UNCHANGED <<stmt, statement, input, output, text, lines, current_line, statement_id, account,
                   sequence_number, currency, opening_balance, closing_balance,
                   transactions, current_transaction, transaction_description,
                   document, records>>

Line20 ==
    /\ Scanning("20")
    /\ statement_id' = TagContent(lines[current_line + 1], 4)
    /\ current_line' = current_line + 1
    /\ UNCHANGED <<pc, stmt, statement, input, output, text, lines, account, sequence_number, currency,
                   opening_balance, closing_balance, transactions,
                   current_transaction, transaction_description, document,
                   records, result>>

Line25 ==
    /\ Scanning("25")
    /\ account' = TagContent(lines[current_line + 1], 4)
    /\ current_line' = current_line + 1
    /\ UNCHANGED <<pc, stmt, statement, input, output, text, lines, statement_id, sequence_number, currency,
                   opening_balance, closing_balance, transactions,
                   current_transaction, transaction_description, document,
                   records, result>>

Line28C ==
    /\ Scanning("28C")
    /\ sequence_number' = Some(TagContent(lines[current_line + 1], 5))
    /\ current_line' = current_line + 1
    /\ UNCHANGED <<pc, stmt, statement, input, output, text, lines, statement_id, account, currency,
                   opening_balance, closing_balance, transactions,
                   current_transaction, transaction_description, document,
                   records, result>>

Line60 ==
    /\ Scanning("60")
    /\ LET bal == parse_balance(lines[current_line + 1], "Opening")
       IN IF bal.ok
          THEN /\ opening_balance' = Some(bal.val)
               /\ currency' = IF currency = <<>> THEN bal.val.currency ELSE currency
               /\ current_line' = current_line + 1
               /\ UNCHANGED <<pc, stmt, statement, input, output, text, lines, statement_id, account,
                              sequence_number, closing_balance, transactions,
                              current_transaction, transaction_description,
                              document, records, result>>
          ELSE Fail(bal.err)

Line61 ==
    /\ Scanning("61")
    /\ LET trans == parse_transaction_line(lines[current_line + 1], currency)
       IN IF trans.ok
          THEN /\ transactions' = FlushTransaction(transactions, current_transaction,
                                                   transaction_description)
               /\ transaction_description' =
                      IF IsSome(current_transaction) THEN <<>>
                      ELSE transaction_description
               /\ current_transaction' = Some(trans.val)
               /\ current_line' = current_line + 1
               /\ UNCHANGED <<pc, stmt, statement, input, output, text, lines, statement_id, account,
                              sequence_number, currency, opening_balance,
                              closing_balance, document, records, result>>
          ELSE Fail(trans.err)

Line86 ==
    /\ Scanning("86")
    /\ LET merged == MergeContinuation(lines,
                                       TagContent(lines[current_line + 1], 4),
                                       current_line, current_line + 1)
       IN /\ transaction_description' = merged.description
          /\ current_line' = merged.current_line + 1
    /\ UNCHANGED <<pc, stmt, statement, input, output, text, lines, statement_id, account, sequence_number,
                   currency, opening_balance, closing_balance, transactions,
                   current_transaction, document, records, result>>

Line62 ==
    /\ Scanning("62")
    /\ LET bal == parse_balance(lines[current_line + 1], "Closing")
       IN IF bal.ok
          THEN /\ closing_balance' = Some(bal.val)
               /\ current_line' = current_line + 1
               /\ UNCHANGED <<pc, stmt, statement, input, output, text, lines, statement_id, account,
                              sequence_number, currency, opening_balance,
                              transactions, current_transaction,
                              transaction_description, document, records, result>>
          ELSE Fail(bal.err)

\* variant: a line without a known tag does not advance the scan
LineOther_NoAdvance ==
    /\ Scanning("other")
    /\ UNCHANGED vars

LineOther ==
    /\ Scanning("other")
    /\ current_line' = current_line + 1
    /\ UNCHANGED <<pc, stmt, statement, input, output, text, lines, statement_id, account, sequence_number,
                   currency, opening_balance, closing_balance, transactions,
                   current_transaction, transaction_description, document,
                   records, result>>

\* what follows the scan loop: the last flush, the required fields, the Statement
BuildStatement(id, acct, seq, ccy, opening, closing, txs) ==
    [NewStatement(id, acct, ccy) EXCEPT
        !.sequence_number = seq,
        !.opening_balance = opening,
        !.closing_balance = closing,
        !.transactions = txs]

\* variant: the account is not required
FinishParse_AccountNotRequired ==
    /\ pc = "parse_mt940"
    /\ current_line >= Len(lines)
    /\ LET txs == FlushTransaction(transactions, current_transaction,
                                   transaction_description)
       IN /\ transactions' = txs
          /\ current_transaction' = None
          /\ result' = IF statement_id = <<>> THEN ErrResult("MissingField")
                       ELSE OkResult(BuildStatement(statement_id, account,
                                                    sequence_number, currency,
                                                    opening_balance,
                                                    closing_balance, txs))
    /\ pc' = "done"
    /\ UNCHANGED <<stmt, statement, input, output, text, lines, current_line, statement_id, account,
                   sequence_number, currency, opening_balance, closing_balance,
                   transaction_description, document, records>>

FinishParse ==
    /\ pc = "parse_mt940"
    /\ current_line >= Len(lines)
    /\ LET txs == FlushTransaction(transactions, current_transaction,
                                   transaction_description)
       IN /\ transactions' = txs
          /\ current_transaction' = None
          /\ result' = IF statement_id = <<>> THEN ErrResult("MissingField")
                       ELSE IF account = <<>> THEN ErrResult("MissingField")
                       ELSE OkResult(BuildStatement(statement_id, account,
                                                    sequence_number, currency,
                                                    opening_balance,
                                                    closing_balance, txs))
    /\ pc' = "done"
    /\ UNCHANGED <<stmt, statement, input, output, text, lines, current_line, statement_id, account,
                   sequence_number, currency, opening_balance, closing_balance,
                   transaction_description, document, records>>

ParseMt940 ==
    \/ Line20
    \/ Line25
    \/ Line28C
    \/ Line60
    \/ Line61
    \/ Line86
    \/ Line62
    \/ LineOther
    \/ FinishParse

(***************************************************************************)
(* Line-format documents the scan is run on: an optional :20:/:25: head    *)
(* followed by up to MaxBody lines drawn from BodyLines.                   *)
(***************************************************************************)
LineId == Tag20 \o <<"S", "1">>
LineAcct == Tag25 \o <<"A", "C", "C">>
LineSeq == Tag28C \o <<"1">>
LineOpening == Tag60 \o <<"F", ":", "C", "2", "4", "0", "1", "0", "1",
                          "U", "S", "D", "1", "0", "0", ",", "0", "0">>
LineClosing == Tag62 \o <<"F", ":", "C", "2", "4", "0", "1", "3", "1",
                          "E", "U", "R", "8", "7", ",", "5", "0">>
\* value date 2024-01-02, entry date 0103, debit 12,50, reference R1
LineTxA == Tag61 \o <<"2", "4", "0", "1", "0", "2", "0", "1", "0", "3", "D",
                      "1", "2", ",", "5", "0", "N", "T", "R", "F", "/", "/",
                      "R", "1">>
\* value date 2024-01-05, no entry date, credit 7, reference R2
LineTxB == Tag61 \o <<"2", "4", "0", "1", "0", "5", "C", "7", "N", "T", "R",
                      "F", "/", "/", "R", "2">>
LineInfoA == Tag86 \o <<"P", "A", "Y">>
LineInfoB == Tag86 \o <<" ", "X", " ", "Y", " ">>
LineContA == <<"M", "O", "R", "E">>
LineContB == <<" ", "-", "}", " ">>

HeadLines == {<<>>, <<LineId>>, <<LineId, LineAcct>>}
BodyLines == {LineSeq, LineOpening, LineClosing, LineTxA, LineTxB,
              LineInfoA, LineInfoB, LineContA, LineContB}

SeqsUpTo(S, n) == UNION {[1..k -> S] : k \in 0..n}

ParserStart ==
    /\ current_line = 0
    /\ statement_id = <<>>
    /\ account = <<>>
    /\ sequence_number = None
    /\ currency = <<>>
    /\ opening_balance = None
    /\ closing_balance = None
    /\ transactions = <<>>
    /\ current_transaction = None
    /\ transaction_description = <<>>

Init ==
    /\ pc = "parse_mt940"
    /\ stmt = EmptyStatement
    /\ text = <<>>
    /\ lines \in {h \o b : h \in HeadLines, b \in SeqsUpTo(BodyLines, MaxBody)}
    /\ ParserStart
    /\ document = None
    /\ statement = EmptyStatement
    /\ input = None
    /\ output = None
    /\ records = <<>>
    /\ result = NoResult

Next == ParseMt940

Spec == Init /\ [][Next]_vars

\* documents for the scan pointer: a head, up to MaxBody :86: and untagged
\* lines, and a closing balance or none.  Opening balance 1 USD on
\* 2024-01-01, a credit of 7 on 2024-01-05, closing balance 8 USD on 2024-01-31.
LineOpeningBrief == Tag60 \o <<"F", ":", "C", "2", "4", "0", "1", "0", "1", "U", "S", "D", "1">>
LineTxBrief == Tag61 \o <<"2", "4", "0", "1", "0", "5", "C", "7", "N">>
LineClosingBrief == Tag62 \o <<"F", ":", "C", "2", "4", "0", "1", "3", "1", "U", "S", "D", "8">>
ScanHeads == {<<LineId, LineAcct, LineSeq>>, <<LineId, LineAcct, LineOpeningBrief, LineTxBrief>>}
ScanBodyLines == {LineInfoA, LineContA}
ScanTails == {<<>>, <<LineClosingBrief>>}

InitScan ==
    /\ pc = "parse_mt940"
    /\ stmt = EmptyStatement
    /\ text = <<>>
    /\ lines \in {h \o b \o t : h \in ScanHeads, b \in SeqsUpTo(ScanBodyLines, MaxBody), t \in ScanTails}
    /\ ParserStart
    /\ document = None
    /\ statement = EmptyStatement
    /\ input = None
    /\ output = None
    /\ records = <<>>
    /\ result = NoResult

\* the scan loop keeps running until it returns
SpecScan == InitScan /\ [][Next]_vars /\ WF_vars(Next)

(***************************************************************************)
(* Line format: serialize_mt940 (write_to) and the reading of the lines.   *)
(***************************************************************************)
HeaderLine ==
    <<"{", "1", ":", "F", "0", "1", "B", "A", "N", "K", "X", "X", "X",
      "X", "A", "X", "X", "X", "0", "0", "0", "0", "0", "0", "0", "0",
      "0", "0", "}", "{", "2", ":", "I", "9", "4", "0", "B", "A", "N",
      "K", "X", "X", "X", "X", "A", "X", "X", "X", "X", "N", "}", "{",
      "4", ":">>
TrailerLine == <<"-", "}">>

\* writeln!: the text and a line feed
Writeln(s) == s \o <<"\n">>

RECURSIVE Concat(_)
Concat(parts) == IF parts = <<>> THEN <<>> ELSE Head(parts) \o Concat(Tail(parts))

\* a :60x: or :62x: line
WriteBalance(tag, balance, final_type) ==
    Writeln(tag
            \o (IF balance.balance_type = final_type THEN <<"F">> ELSE <<"M">>)
            \o <<":">>
            \o DebitCreditToString(balance.debit_credit)
            \o format_mt940_date(balance.date)
            \o balance.currency
            \o ReplaceChar(DecimalToString(balance.amount), ".", ","))

\* a :61: line and, for a non-empty description, a :86: line
WriteTransaction(transaction) ==
    Writeln(Tag61
            \o (IF IsSome(transaction.value_date)
                THEN format_mt940_date(Unwrap(transaction.value_date))
                ELSE format_mt940_date(transaction.date))
            \o Pad2(transaction.date.month) \o Pad2(transaction.date.day)
            \o DebitCreditToString(transaction.debit_credit)
            \o ReplaceChar(DecimalToString(transaction.amount), ".", ",")
            \o <<"N", "T", "R", "F", "/", "/">> \o transaction.reference)
    \o (IF transaction.description # <<>>
        THEN Writeln(Tag86 \o transaction.description)
        ELSE <<>>)

serialize_mt940(s) ==
    Writeln(HeaderLine)
    \o Writeln(Tag20 \o s.statement_id)
    \o Writeln(Tag25 \o s.account)
    \o (IF IsSome(s.sequence_number)
        THEN Writeln(Tag28C \o Unwrap(s.sequence_number)) ELSE <<>>)
    \o (IF IsSome(s.opening_balance)
        THEN WriteBalance(Tag60, Unwrap(s.opening_balance), "Opening") ELSE <<>>)
    \o Concat([i \in 1..Len(s.transactions) |-> WriteTransaction(s.transactions[i])])
    \o (IF IsSome(s.closing_balance)
        THEN WriteBalance(Tag62, Unwrap(s.closing_balance), "Closing") ELSE <<>>)
    \o Writeln(TrailerLine)

\* BufRead::lines: the text between line feeds, a final carriage return removed
StripCr(l) == IF l # <<>> /\ l[Len(l)] = "\r" THEN SubSeq(l, 1, Len(l) - 1) ELSE l

LineFeeds(t) == {i \in 1..Len(t) : t[i] = "\n"}
LineFeed(t, k) ==
    IF k = 0 THEN 0
    ELSE CHOOSE i \in LineFeeds(t) : Cardinality({j \in LineFeeds(t) : j <= i}) = k

ReadLines(t) ==
    LET n == Cardinality(LineFeeds(t))
        terminated == [k \in 1..n |->
                         StripCr(SubSeq(t, LineFeed(t, k - 1) + 1, LineFeed(t, k) - 1))]
    IN IF LineFeed(t, n) < Len(t)
       THEN Append(terminated, SubSeq(t, LineFeed(t, n) + 1, Len(t)))
       ELSE terminated

\* Mt940Statement::write_to
WriteMt940 ==
    /\ pc = "write_mt940"
    /\ text' = serialize_mt940(stmt)
    /\ pc' = "read_mt940"
    /\ UNCHANGED <<stmt, statement, input, output, lines, current_line, statement_id, account,
                   sequence_number, currency, opening_balance, closing_balance,
                   transactions, current_transaction, transaction_description,
                   document, records, result>>

\* Mt940Statement::from_read up to the scan loop: the lines are collected
ReadMt940 ==
    /\ pc = "read_mt940"
    /\ lines' = ReadLines(text)
    /\ pc' = "parse_mt940"
    /\ UNCHANGED <<stmt, statement, input, output, text, current_line, statement_id, account,
                   sequence_number, currency, opening_balance, closing_balance,
                   transactions, current_transaction, transaction_description,
                   document, records, result>>

(***************************************************************************)
(* Statements handed to the serializers and conversions.  Text fields are  *)
(* single-line and trimmed, amounts are magnitudes, a balance in the       *)
(* opening (closing) slot is typed Opening (Closing) and carries the       *)
(* statement currency: the shape every parser of the repository gives a    *)
(* Statement.                                                              *)
(***************************************************************************)
Usd == <<"U", "S", "D">>

Tx(reference, date, value_date, amount, dc, desc, cp_account, cp_name, bic, info) ==
    [reference |-> reference, date |-> date, value_date |-> value_date,
     amount |-> amount, currency |-> Usd, debit_credit |-> dc,
     account |-> None, counterparty_account |-> cp_account,
     counterparty_name |-> cp_name, bank_identifier |-> bic,
     description |-> desc, additional_info |-> info]

OpeningBalances == {None, Some(Balance("Opening", Dec(FALSE, 10000, 2), Usd,
                                        "Credit", Date(2024, 1, 1)))}
ClosingBalances == {None, Some(Balance("Closing", Dec(FALSE, 8750, 2), Usd,
                                        "Debit", Date(2024, 1, 31)))}
SequenceNumbers == {None, Some(<<"1">>)}

\* booked 2024-01-03 with value date 2024-01-02, described
TxDescribed ==
    Tx(<<"R", "1">>, Date(2024, 1, 3), Some(Date(2024, 1, 2)), Dec(FALSE, 1250, 2),
       "Debit", <<"P", "A", "Y">>, None, None, None, None)
\* no description
TxPlain ==
    Tx(<<"R", "2">>, Date(2024, 1, 5), Some(Date(2024, 1, 5)), Dec(FALSE, 7, 0),
       "Credit", <<>>, None, None, None, None)
\* no value date
TxUnvalued ==
    Tx(<<"R", "3">>, Date(1999, 12, 31), None, Dec(FALSE, 5, 1),
       "Credit", <<"X", " ", "Y">>, None, None, None, None)

LineTransactions == {TxDescribed, TxPlain, TxUnvalued}

StatementOf(seq, opening, closing, txs) ==
    [NewStatement(<<"S", "1">>, <<"A", "C", "C">>, Usd) EXCEPT
        !.sequence_number = seq,
        !.opening_balance = opening,
        !.closing_balance = closing,
        !.transactions = txs]

LineStatements ==
    {StatementOf(seq, o, c, txs) :
        seq \in SequenceNumbers, o \in OpeningBalances, c \in ClosingBalances,
        txs \in SeqsUpTo(LineTransactions, MaxTx)}

InitLineRoundTrip ==
    /\ pc = "write_mt940"
    /\ stmt \in LineStatements
    /\ text = <<>>
    /\ lines = <<>>
    /\ ParserStart
    /\ document = None
    /\ statement = EmptyStatement
    /\ input = None
    /\ output = None
    /\ records = <<>>
    /\ result = NoResult

NextLineRoundTrip == WriteMt940 \/ ReadMt940 \/ ParseMt940

SpecLineRoundTrip == InitLineRoundTrip /\ [][NextLineRoundTrip]_vars

(***************************************************************************)
(* Structured format (camt053_format.rs): dates as text.                   *)
(***************************************************************************)
Positions(s, c) == {i \in 1..Len(s) : s[i] = c}
Position(s, c, k) ==
    IF k = 0 THEN 0
    ELSE IF k > Cardinality(Positions(s, c)) THEN Len(s) + 1
    ELSE CHOOSE i \in Positions(s, c) :
             Cardinality({j \in Positions(s, c) : j <= i}) = k

\* s.split(c): the parts between the occurrences of c
SplitChar(s, c) ==
    [k \in 1..(Cardinality(Positions(s, c)) + 1) |->
        SubSeq(s, Position(s, c, k - 1) + 1, Position(s, c, k) - 1)]

IsNumberField(s, max_len) == AllDigits(s) /\ Len(s) <= max_len

\* NaiveDate::parse_from_str(s, "%Y-%m-%d")
parse_date_only(date_str) ==
    LET parts == SplitChar(date_str, "-")
    IN IF /\ Len(parts) = 3
          /\ IsNumberField(parts[1], 4)
          /\ IsNumberField(parts[2], 2)
          /\ IsNumberField(parts[3], 2)
       THEN LET d == FromYmdOpt(DigitsValue(parts[1]), DigitsValue(parts[2]),
                                DigitsValue(parts[3]))
            IN IF IsSome(d) THEN Ok(Unwrap(d)) ELSE Err("InvalidDate")
       ELSE Err("InvalidDate")

\* the time of day of "%Y-%m-%dT%H:%M:%S"
IsTimeOfDay(s) ==
    LET parts == SplitChar(s, ":")
    IN /\ Len(parts) = 3
       /\ \A i \in 1..3 : IsNumberField(parts[i], 2)
       /\ DigitsValue(parts[1]) < 24
       /\ DigitsValue(parts[2]) < 60
       /\ DigitsValue(parts[3]) < 61

\* parse_camt_date: date and time first, the date alone otherwise
parse_camt_date(date_str) ==
    LET parts == SplitChar(date_str, "T")
    IN IF Len(parts) = 2 /\ parse_date_only(parts[1]).ok /\ IsTimeOfDay(parts[2])
       THEN parse_date_only(parts[1])
       ELSE parse_date_only(date_str)

format_date_only(date) == FormatIsoDate(date)

format_date_time(date) ==
    FormatIsoDate(date) \o <<"T", "0", "0", ":", "0", "0", ":", "0", "0">>

(***************************************************************************)
(* Structured format: the Document tree (the XML structure definitions).   *)
(***************************************************************************)
AmountXml(value, ccy) == [value |-> value, ccy |-> ccy, ccy_alt |-> None]
DateXml(dt, dt_tm) == [dt |-> dt, dt_tm |-> dt_tm]
AccountIdXml(iban, othr) == [iban |-> iban, othr |-> othr]

\* AmountXml::ccy
AmountCcy(amt) == IF IsSome(amt.ccy) THEN amt.ccy ELSE amt.ccy_alt

Unknown == <<"U", "N", "K", "N", "O", "W", "N">>
Opbd == <<"O", "P", "B", "D">>
Opav == <<"O", "P", "A", "V">>
Clbd == <<"C", "L", "B", "D">>
Clav == <<"C", "L", "A", "V">>
Prcd == <<"P", "R", "C", "D">>

\* iban.or_else(othr.id)
AccountIdOf(id) ==
    IF IsSome(id.iban) THEN id.iban
    ELSE IF IsSome(id.othr) THEN Some(Unwrap(id.othr).id)
    ELSE None

(***************************************************************************)
(* Structured format: to_document.                                         *)
(***************************************************************************)
BalanceXmlOf(cd, balance) ==
    [cd |-> cd,
     amt |-> AmountXml(DecimalToString(balance.amount), Some(balance.currency)),
     cdt_dbt_ind |-> ToIsoFormat(balance.debit_credit),
     dt |-> DateXml(Some(format_date_only(balance.date)), None)]

\* the RltdPties element of an entry
RelatedPartiesOf(tx) ==
    IF IsSome(tx.counterparty_name) \/ IsSome(tx.counterparty_account)
    THEN Some([dbtr |-> IF tx.debit_credit = "Credit" /\ IsSome(tx.counterparty_name)
                        THEN Some([nm |-> tx.counterparty_name]) ELSE None,
               dbtr_acct |-> IF tx.debit_credit = "Credit"
                                /\ IsSome(tx.counterparty_account)
                             THEN Some([id |-> AccountIdXml(tx.counterparty_account,
                                                            None)])
                             ELSE None,
               cdtr |-> IF tx.debit_credit = "Debit" /\ IsSome(tx.counterparty_name)
                        THEN Some([nm |-> tx.counterparty_name]) ELSE None,
               cdtr_acct |-> IF tx.debit_credit = "Debit"
                                /\ IsSome(tx.counterparty_account)
                             THEN Some([id |-> AccountIdXml(tx.counterparty_account,
                                                            None)])
                             ELSE None])
    ELSE None

\* the RltdAgts element of an entry: never written
RelatedAgentsOf(tx) == None

EntryXmlOf(tx) ==
    [ntry_ref |-> Some(tx.reference),
     amt |-> AmountXml(DecimalToString(tx.amount), Some(tx.currency)),
     cdt_dbt_ind |-> ToIsoFormat(tx.debit_credit),
     sts |-> <<"B", "O", "O", "K">>,
     bookg_dt |-> Some(DateXml(Some(format_date_only(tx.date)), None)),
     val_dt |-> IF IsSome(tx.value_date)
                THEN Some(DateXml(Some(format_date_only(Unwrap(tx.value_date))), None))
                ELSE None,
     bk_tx_cd |-> Some([prtry |-> Some([cd |-> tx.description])]),
     ntry_dtls |-> Some([tx_dtls |-> Some(
         [rltd_pties |-> RelatedPartiesOf(tx),
          rltd_agts |-> RelatedAgentsOf(tx),
          rmt_inf |-> IF tx.description # <<>>
                      THEN Some([ustrd |-> Some(tx.description)]) ELSE None,
          addtl_tx_inf |-> tx.additional_info])])]

\* date.as_ref().map(format_date_time)
OptionalDateTime(date) ==
    IF IsSome(date) THEN Some(format_date_time(Unwrap(date))) ELSE None

to_document(s, now) ==
    [grp_hdr |-> [msg_id |-> s.statement_id,
                  cre_dt_tm |-> IF IsSome(s.creation_date)
                                THEN format_date_time(Unwrap(s.creation_date))
                                ELSE format_date_time(now)],
     stmt |-> [id |-> s.statement_id,
               elctrnic_seq_nb |->
                   IF IsSome(s.sequence_number)
                      /\ ParseU32(Unwrap(s.sequence_number)).ok
                   THEN Some(ParseU32(Unwrap(s.sequence_number)).val) ELSE None,
               cre_dt_tm |-> OptionalDateTime(s.creation_date),
               fr_to_dt |-> IF IsSome(s.from_date) \/ IsSome(s.to_date)
                            THEN Some([fr_dt_tm |-> OptionalDateTime(s.from_date),
                                       to_dt_tm |-> OptionalDateTime(s.to_date)])
                            ELSE None,
               acct |-> [id |-> AccountIdXml(Some(s.account), None),
                         ccy |-> s.currency,
                         nm |-> s.account_holder],
               bal |-> (IF IsSome(s.opening_balance)
                        THEN <<BalanceXmlOf(Opbd, Unwrap(s.opening_balance))>>
                        ELSE <<>>)
                       \o (IF IsSome(s.closing_balance)
                           THEN <<BalanceXmlOf(Clbd, Unwrap(s.closing_balance))>>
                           ELSE <<>>),
               ntry |-> [i \in 1..Len(s.transactions) |->
                            EntryXmlOf(s.transactions[i])]]]

(***************************************************************************)
(* Structured format: from_document.                                       *)
(***************************************************************************)
\* variant: only the opening codes are recognised
BalanceTypeOf_OpeningCodesOnly(cd) ==
    IF cd \in {Opbd, Opav} THEN "Opening" ELSE "Intermediate"

BalanceTypeOf(cd) ==
    IF cd \in {Opbd, Opav} THEN "Opening"
    ELSE IF cd \in {Clbd, Clav} THEN "Closing"
    ELSE IF cd = Prcd THEN "Intermediate"
    ELSE "Intermediate"

\* Camt053Statement::parse_balance
camt_parse_balance(bal) ==
    LET amount == DecimalFromStr(bal.amt.value)
        dc == DebitCreditFromStr(bal.cdt_dbt_ind)
        date == IF IsSome(bal.dt.dt) THEN parse_date_only(Unwrap(bal.dt.dt))
                ELSE IF IsSome(bal.dt.dt_tm) THEN parse_camt_date(Unwrap(bal.dt.dt_tm))
                ELSE Err("MissingField")
        ccy == IF IsSome(AmountCcy(bal.amt)) THEN Unwrap(AmountCcy(bal.amt))
               ELSE <<"X", "X", "X">>
    IN IF ~amount.ok THEN Err("InvalidAmount")
       ELSE IF ~dc.ok THEN Err("ParseError")
       ELSE IF ~date.ok THEN Err(date.err)
       ELSE Ok(Balance(BalanceTypeOf(bal.cd), amount.val, ccy, dc.val, date.val))

\* booking date of an entry: Dt, else DtTm, else today
EntryDate(dt, now) ==
    IF IsSome(dt)
    THEN IF IsSome(Unwrap(dt).dt) THEN parse_date_only(Unwrap(Unwrap(dt).dt))
         ELSE IF IsSome(Unwrap(dt).dt_tm) THEN parse_camt_date(Unwrap(Unwrap(dt).dt_tm))
         ELSE Ok(now)
    ELSE Ok(now)

\* value date of an entry: Dt, else DtTm, else none
EntryValueDate(dt) ==
    IF IsSome(dt)
    THEN IF IsSome(Unwrap(dt).dt)
         THEN LET d == parse_date_only(Unwrap(Unwrap(dt).dt))
              IN IF d.ok THEN Ok(Some(d.val)) ELSE d
         ELSE IF IsSome(Unwrap(dt).dt_tm)
         THEN LET d == parse_camt_date(Unwrap(Unwrap(dt).dt_tm))
              IN IF d.ok THEN Ok(Some(d.val)) ELSE d
         ELSE Ok(None)
    ELSE Ok(None)

\* the transaction details of an entry, if any
TxDetails(entry) ==
    IF IsSome(entry.ntry_dtls) THEN Unwrap(entry.ntry_dtls).tx_dtls ELSE None

\* description: the remittance text, else the proprietary bank transaction code
EntryDescription(entry) ==
    LET dtls == TxDetails(entry)
        ustrd == IF IsSome(dtls) /\ IsSome(Unwrap(dtls).rmt_inf)
                    /\ IsSome(Unwrap(Unwrap(dtls).rmt_inf).ustrd)
                 THEN Unwrap(Unwrap(Unwrap(dtls).rmt_inf).ustrd)
                 ELSE <<>>
    IN IF ustrd = <<>> /\ IsSome(entry.bk_tx_cd) /\ IsSome(Unwrap(entry.bk_tx_cd).prtry)
       THEN Unwrap(Unwrap(entry.bk_tx_cd).prtry).cd
       ELSE ustrd

\* counterparty name: the debtor's, then overwritten by the creditor's when present
EntryCounterpartyName(entry) ==
    LET dtls == TxDetails(entry)
    IN IF IsSome(dtls) /\ IsSome(Unwrap(dtls).rltd_pties)
       THEN LET p == Unwrap(Unwrap(dtls).rltd_pties)
                after_dbtr == IF IsSome(p.dbtr) THEN Unwrap(p.dbtr).nm ELSE None
            IN IF IsSome(p.cdtr) THEN Unwrap(p.cdtr).nm ELSE after_dbtr
       ELSE None

EntryCounterpartyAccount(entry) ==
    LET dtls == TxDetails(entry)
    IN IF IsSome(dtls) /\ IsSome(Unwrap(dtls).rltd_pties)
       THEN LET p == Unwrap(Unwrap(dtls).rltd_pties)
                after_dbtr == IF IsSome(p.dbtr_acct)
                              THEN AccountIdOf(Unwrap(p.dbtr_acct).id) ELSE None
            IN IF IsSome(p.cdtr_acct) THEN AccountIdOf(Unwrap(p.cdtr_acct).id)
               ELSE after_dbtr
       ELSE None

EntryBankIdentifier(entry) ==
    LET dtls == TxDetails(entry)
    IN IF IsSome(dtls) /\ IsSome(Unwrap(dtls).rltd_agts)
       THEN LET a == Unwrap(Unwrap(dtls).rltd_agts)
                after_dbtr == IF IsSome(a.dbtr_agt) THEN Unwrap(a.dbtr_agt).bic
                              ELSE None
            IN IF IsSome(a.cdtr_agt) THEN Unwrap(a.cdtr_agt).bic ELSE after_dbtr
       ELSE None

EntryAdditionalInfo(entry) ==
    LET dtls == TxDetails(entry)
    IN IF IsSome(dtls) THEN Unwrap(dtls).addtl_tx_inf ELSE None

\* Camt053Statement::parse_entry
parse_entry(entry, default_currency, now) ==
    LET amount == DecimalFromStr(entry.amt.value)
        dc == DebitCreditFromStr(entry.cdt_dbt_ind)
        date == EntryDate(entry.bookg_dt, now)
        value_date == EntryValueDate(entry.val_dt)
    IN IF ~amount.ok THEN Err("InvalidAmount")
       ELSE IF ~dc.ok THEN Err("ParseError")
       ELSE IF ~date.ok THEN Err(date.err)
       ELSE IF ~value_date.ok THEN Err(value_date.err)
       ELSE Ok([reference |-> IF IsSome(entry.ntry_ref) THEN Unwrap(entry.ntry_ref)
                              ELSE Unknown,
                date |-> date.val,
                value_date |-> value_date.val,
                amount |-> amount.val,
                currency |-> IF IsSome(entry.amt.ccy) THEN Unwrap(entry.amt.ccy)
                             ELSE default_currency,
                debit_credit |-> dc.val,
                account |-> None,
                counterparty_account |-> EntryCounterpartyAccount(entry),
                counterparty_name |-> EntryCounterpartyName(entry),
                bank_identifier |-> EntryBankIdentifier(entry),
                description |-> EntryDescription(entry),
                additional_info |-> EntryAdditionalInfo(entry)])

\* parse_camt_date(..).ok() of an optional text
DateOk(o) ==
    IF IsSome(o) /\ parse_camt_date(Unwrap(o)).ok
    THEN Some(parse_camt_date(Unwrap(o)).val) ELSE None

\* from_document up to the balance loop: the Statement and its header fields
StatementHeader(doc) ==
    LET stmt_data == doc.stmt
        account_id == IF IsSome(AccountIdOf(stmt_data.acct.id))
                      THEN Unwrap(AccountIdOf(stmt_data.acct.id)) ELSE Unknown
    IN [NewStatement(stmt_data.id, account_id, stmt_data.acct.ccy) EXCEPT
           !.sequence_number = IF IsSome(stmt_data.elctrnic_seq_nb)
                               THEN Some(NatToStr(Unwrap(stmt_data.elctrnic_seq_nb)))
                               ELSE None,
           !.account_holder = stmt_data.acct.nm,
           !.creation_date = DateOk(stmt_data.cre_dt_tm),
           !.from_date = IF IsSome(stmt_data.fr_to_dt)
                         THEN DateOk(Unwrap(stmt_data.fr_to_dt).fr_dt_tm)
                         ELSE None,
           !.to_date = IF IsSome(stmt_data.fr_to_dt)
                       THEN DateOk(Unwrap(stmt_data.fr_to_dt).to_dt_tm)
                       ELSE None]

\* variant: a balance that is not an opening one becomes the closing balance
WithBalance_ClosingOtherwise(s, balance) ==
    IF balance.balance_type = "Opening"
    THEN [s EXCEPT !.opening_balance = Some(balance)]
    ELSE [s EXCEPT !.closing_balance = Some(balance)]

\* the statement after one iteration of the balance loop
WithBalance(s, balance) ==
    IF balance.balance_type = "Opening"
    THEN [s EXCEPT !.opening_balance = Some(balance)]
    ELSE IF balance.balance_type = "Closing"
    THEN [s EXCEPT !.closing_balance = Some(balance)]
    ELSE s

(***************************************************************************)
(* Structured format: write_to and from_read over the Document tree.       *)
(***************************************************************************)
\* the dates chrono::Utc::now().date_naive() may give
Today == {Date(2026, 11, 4), Date(2026, 11, 5)}

ReaderIdle ==
    UNCHANGED <<stmt, text, lines, statement_id, account, sequence_number, currency,
                opening_balance, closing_balance, transactions, current_transaction,
                transaction_description, records, input, output>>

\* Camt053Statement::write_to
WriteCamt053 ==
    /\ pc = "write_camt053"
    /\ \E now \in Today : document' = Some(to_document(stmt, now))
    /\ pc' = "read_camt053"
    /\ UNCHANGED <<statement, current_line, result>>
    /\ ReaderIdle

\* Camt053Statement::from_read, and from_document up to the balance loop
ReadCamt053 ==
    /\ pc = "read_camt053"
    /\ statement' = StatementHeader(Unwrap(document))
    /\ current_line' = 0
    /\ pc' = "from_document_bal"
    /\ UNCHANGED <<document, result>>
    /\ ReaderIdle

\* one iteration of the balance loop
ParseBalance ==
    /\ pc = "from_document_bal"
    /\ current_line < Len(Unwrap(document).stmt.bal)
    /\ LET balance == camt_parse_balance(Unwrap(document).stmt.bal[current_line + 1])
       IN IF balance.ok
          THEN /\ statement' = WithBalance(statement, balance.val)
               /\ current_line' = current_line + 1
               /\ UNCHANGED <<pc, result>>
          ELSE /\ result' = ErrResult(balance.err)
               /\ pc' = "done"
               /\ UNCHANGED <<statement, current_line>>
    /\ UNCHANGED document
    /\ ReaderIdle

\* the balance loop is over, the entry loop starts
BalancesParsed ==
    /\ pc = "from_document_bal"
    /\ current_line >= Len(Unwrap(document).stmt.bal)
    /\ current_line' = 0
    /\ pc' = "from_document_ntry"
    /\ UNCHANGED <<statement, document, result>>
    /\ ReaderIdle

\* one iteration of the entry loop
ParseEntry ==
    /\ pc = "from_document_ntry"
    /\ current_line < Len(Unwrap(document).stmt.ntry)
    /\ \E now \in Today :
          LET transaction == parse_entry(Unwrap(document).stmt.ntry[current_line + 1],
                                         statement.currency, now)
          IN IF transaction.ok
             THEN /\ statement' = [statement EXCEPT
                                      !.transactions = Append(@, transaction.val)]
                  /\ current_line' = current_line + 1
                  /\ UNCHANGED <<pc, result>>
             ELSE /\ result' = ErrResult(transaction.err)
                  /\ pc' = "done"
                  /\ UNCHANGED <<statement, current_line>>
    /\ UNCHANGED document
    /\ ReaderIdle

\* the entry loop is over: Ok(Camt053Statement { statement })
EntriesParsed ==
    /\ pc = "from_document_ntry"
    /\ current_line >= Len(Unwrap(document).stmt.ntry)
    /\ result' = OkResult(statement)
    /\ pc' = "done"
    /\ UNCHANGED <<statement, current_line, document>>
    /\ ReaderIdle

\* Camt053Statement::from_document
from_document ==
    \/ ParseBalance
    \/ BalancesParsed
    \/ ParseEntry
    \/ EntriesParsed

(***************************************************************************)
(* Structured round trip: the statements written and read back.            *)
(***************************************************************************)
\* credited by a named party with an account, annotated, no description
TxFromParty ==
    Tx(<<"R", "4">>, Date(2024, 2, 29), Some(Date(2024, 3, 1)), Dec(FALSE, 100, 0),
       "Credit", <<>>, Some(<<"D", "E", "1">>), Some(<<"B", "O", "B">>), None,
       Some(<<"N", "O", "T", "E">>))
\* paid to a named party without an account, no value date
TxToParty ==
    Tx(<<"R", "5">>, Date(2023, 10, 9), None, Dec(TRUE, 25, 1),
       "Debit", <<"X", " ", "Y">>, None, Some(<<"A", "N", "N">>), None, None)
\* carries the counterparty's bank identifier
TxWithAgent ==
    Tx(<<"R", "6">>, Date(2024, 1, 5), Some(Date(2024, 1, 5)), Dec(FALSE, 7, 0),
       "Credit", <<"F", "E", "E">>, Some(<<"D", "E", "2">>), None,
       Some(<<"B", "I", "C", "1">>), None)

CamtTransactions == {TxDescribed, TxFromParty, TxToParty, TxWithAgent}

Header(seq, holder, creation, from, to) ==
    [sequence_number |-> seq, account_holder |-> holder, creation_date |-> creation,
     from_date |-> from, to_date |-> to]

CamtHeaders ==
    {Header(None, None, None, None, None),
     Header(Some(<<"1">>), Some(<<"B", "O", "B">>), Some(Date(2024, 2, 1)),
            Some(Date(2024, 1, 1)), Some(Date(2024, 1, 31))),
     Header(None, None, None, Some(Date(2023, 12, 31)), None),
     Header(Some(<<"0", "7">>), Some(<<"A", " ", "B">>), None, None,
            Some(Date(2024, 2, 29))),
     Header(Some(<<"7", "a">>), None, None, None, None),
     Header(Some(<<"4", "2", "9", "4", "9", "6", "7", "2", "9", "6">>), None, None,
            None, None)}

CamtStatements ==
    {[StatementOf(h.sequence_number, o, c, txs) EXCEPT
         !.account_holder = h.account_holder,
         !.creation_date = h.creation_date,
         !.from_date = h.from_date,
         !.to_date = h.to_date] :
        h \in CamtHeaders, o \in OpeningBalances, c \in ClosingBalances,
        txs \in SeqsUpTo(CamtTransactions, MaxTx)}

InitCamt ==
    /\ pc = "write_camt053"
    /\ stmt \in CamtStatements
    /\ text = <<>>
    /\ lines = <<>>
    /\ ParserStart
    /\ document = None
    /\ statement = EmptyStatement
    /\ input = None
    /\ output = None
    /\ records = <<>>
    /\ result = NoResult

NextCamt == WriteCamt053 \/ ReadCamt053 \/ from_document

SpecCamt == InitCamt /\ [][NextCamt]_vars

(***************************************************************************)
(* Tabular format (csv_format.rs): cells as text.                          *)
(***************************************************************************)
CsvRecord(date, debit_account, credit_account, debit_amount, credit_amount, reference, description, bank) ==
    [date |-> date, debit_account |-> debit_account,
     credit_account |-> credit_account, debit_amount |-> debit_amount,
     credit_amount |-> credit_amount, reference |-> reference,
     description |-> description, bank |-> bank]

\* NaiveDate::parse_from_str over three numeric fields separated by sep;
\* y, m, d give the position of year, month and day among the fields
ParseDateFields(s, sep, y, m, d) ==
    LET parts == SplitChar(s, sep)
    IN IF /\ Len(parts) = 3
          /\ IsNumberField(parts[y], 4)
          /\ IsNumberField(parts[m], 2)
          /\ IsNumberField(parts[d], 2)
       THEN FromYmdOpt(DigitsValue(parts[y]), DigitsValue(parts[m]),
                       DigitsValue(parts[d]))
       ELSE None

\* variant: month/day/year is tried before day/month/year
parse_date_MonthFirst(date_str) ==
    LET t == Trim(date_str)
        dotted == ParseDateFields(t, ".", 3, 2, 1)
        iso == ParseDateFields(t, "-", 1, 2, 3)
        day_first == ParseDateFields(t, "/", 3, 2, 1)
        month_first == ParseDateFields(t, "/", 3, 1, 2)
    IN IF IsSome(dotted) THEN Ok(Unwrap(dotted))
       ELSE IF IsSome(iso) THEN Ok(Unwrap(iso))
       ELSE IF IsSome(month_first) THEN Ok(Unwrap(month_first))
       ELSE IF IsSome(day_first) THEN Ok(Unwrap(day_first))
       ELSE Err("InvalidDate")

\* CsvStatement::parse_date: four patterns in order, the first that parses wins
parse_date(date_str) ==
    LET t == Trim(date_str)
        dotted == ParseDateFields(t, ".", 3, 2, 1)
        iso == ParseDateFields(t, "-", 1, 2, 3)
        day_first == ParseDateFields(t, "/", 3, 2, 1)
        month_first == ParseDateFields(t, "/", 3, 1, 2)
    IN IF IsSome(dotted) THEN Ok(Unwrap(dotted))
       ELSE IF IsSome(iso) THEN Ok(Unwrap(iso))
       ELSE IF IsSome(day_first) THEN Ok(Unwrap(day_first))
       ELSE IF IsSome(month_first) THEN Ok(Unwrap(month_first))
       ELSE Err("InvalidDate")

\* variant: month before day
FormatDottedDate_MonthFirst(date) ==
    Pad2(date.month) \o <<".">> \o Pad2(date.day) \o <<".">> \o Pad4(date.year)

\* date.format("%d.%m.%Y")
FormatDottedDate(date) ==
    Pad2(date.day) \o <<".">> \o Pad2(date.month) \o <<".">> \o Pad4(date.year)

IsNotSpace(c) == c # " "

\* CsvStatement::parse_amount
parse_amount(amount_str) ==
    DecimalFromStr(ReplaceChar(SelectSeq(Trim(amount_str), IsNotSpace), ",", "."))

\* field.lines().next().unwrap_or(field).trim()
FirstLine(field) ==
    Trim(IF ReadLines(field) = <<>> THEN field ELSE ReadLines(field)[1])

\* CsvStatement::extract_account
extract_account(account_field) == FirstLine(account_field)

\* s.find(p): 1-based position of the first occurrence of p, 0 when absent
Find(s, p) ==
    LET hits == {i \in 1..(Len(s) - Len(p) + 1) : SubSeq(s, i, i + Len(p) - 1) = p}
    IN IF hits = {} THEN 0 ELSE CHOOSE i \in hits : \A j \in hits : i <= j

\* s.split_whitespace().next().unwrap_or("")
FirstToken(s) ==
    LET t == TrimStart(s)
        stops == {i \in 1..Len(t) : IsWhitespace(t[i])}
    IN IF stops = {} THEN t
       ELSE SubSeq(t, 1, (CHOOSE i \in stops : \A j \in stops : i <= j) - 1)

\* the Cyrillic letters BE, I, KA, each one character of the text
CyrBe == "CYRILLIC BE"
CyrI == "CYRILLIC I"
CyrKa == "CYRILLIC KA"

BicMarkerLocal == <<CyrBe, CyrI, CyrKa, " ">>
BicMarkerAscii == <<"B", "I", "C", " ">>

\* variant: only the Cyrillic marker is looked for
extract_bic_LocalMarkerOnly(bank_field) ==
    IF Find(bank_field, BicMarkerLocal) > 0
    THEN FirstToken(SubSeq(bank_field,
                           Find(bank_field, BicMarkerLocal) + Len(BicMarkerLocal),
                           Len(bank_field)))
    ELSE Trim(bank_field)

\* CsvStatement::extract_bic
extract_bic(bank_field) ==
    IF Find(bank_field, BicMarkerLocal) > 0
    THEN FirstToken(SubSeq(bank_field,
                           Find(bank_field, BicMarkerLocal) + Len(BicMarkerLocal),
                           Len(bank_field)))
    ELSE IF Find(bank_field, BicMarkerAscii) > 0
    THEN FirstToken(SubSeq(bank_field,
                           Find(bank_field, BicMarkerAscii) + Len(BicMarkerAscii),
                           Len(bank_field)))
    ELSE Trim(bank_field)

\* CsvStatement::extract_counterparty_name
extract_counterparty_name(description, debit_account, credit_account) ==
    LET account_lines == ReadLines(debit_account) \o ReadLines(credit_account)
    IN IF Len(account_lines) >= 3 /\ Trim(account_lines[3]) # <<>>
       THEN Some(Trim(account_lines[3]))
       ELSE IF description # <<>> THEN Some(FirstLine(description))
       ELSE None

Rub == <<"R", "U", "B">>

\* the Transaction pushed for a row
CsvTransaction(record, date, amount, dc, counterparty_account) ==
    [reference |-> Trim(record.reference),
     date |-> date,
     value_date |-> Some(date),
     amount |-> amount,
     currency |-> Rub,
     debit_credit |-> dc,
     account |-> None,
     counterparty_account |-> counterparty_account,
     counterparty_name |-> extract_counterparty_name(record.description,
                                                     record.debit_account,
                                                     record.credit_account),
     bank_identifier |-> IF record.bank # <<>> THEN Some(extract_bic(record.bank))
                         ELSE None,
     description |-> Trim(record.description),
     additional_info |-> None]

\* one row of write_to
CsvRecordOf(own_account, transaction) ==
    LET counterparty == IF IsSome(transaction.counterparty_account)
                        THEN Unwrap(transaction.counterparty_account) ELSE <<>>
        debit == transaction.debit_credit = "Debit"
    IN CsvRecord(FormatDottedDate(transaction.date),
                 IF debit THEN own_account ELSE counterparty,
                 IF debit THEN counterparty ELSE own_account,
                 IF debit THEN DecimalToString(transaction.amount) ELSE <<>>,
                 IF debit THEN <<>> ELSE DecimalToString(transaction.amount),
                 transaction.reference,
                 transaction.description,
                 IF IsSome(transaction.bank_identifier)
                 THEN Unwrap(transaction.bank_identifier) ELSE <<>>)

(***************************************************************************)
(* Tabular format: write_to and the row loop of from_read.                 *)
(***************************************************************************)
\* CsvStatement::write_to: one row per transaction
WriteCsv ==
    /\ pc = "write_csv"
    /\ records' = [i \in 1..Len(stmt.transactions) |->
                      CsvRecordOf(stmt.account, stmt.transactions[i])]
    /\ pc' = "read_csv"
    /\ UNCHANGED <<stmt, statement, input, output, text, lines, current_line, statement_id, account,
                   sequence_number, currency, opening_balance, closing_balance,
                   transactions, current_transaction, transaction_description,
                   document, result>>

ReadingRow ==
    /\ pc = "read_csv"
    /\ current_line < Len(records)

Row == records[current_line + 1]

NextRow(txs, acct) ==
    /\ transactions' = txs
    /\ account' = acct
    /\ current_line' = current_line + 1
    /\ UNCHANGED <<pc, stmt, statement, input, output, text, lines, statement_id, sequence_number, currency,
                   opening_balance, closing_balance, current_transaction,
                   transaction_description, document, records, result>>

FailRow(kind) ==
    /\ result' = ErrResult(kind)
    /\ pc' = "done"
    /\ UNCHANGED <<stmt, statement, input, output, text, lines, current_line, statement_id, account,
                   sequence_number, currency, opening_balance, closing_balance,
                   transactions, current_transaction, transaction_description,
                   document, records>>

\* a row with an empty date, or with a date and no amount, is skipped
RowSkipped ==
    /\ ReadingRow
    /\ \/ Trim(Row.date) = <<>>
       \/ /\ parse_date(Row.date).ok
          /\ Row.debit_amount = <<>>
          /\ Row.credit_amount = <<>>
    /\ NextRow(transactions, account)

RowBadDate ==
    /\ ReadingRow
    /\ Trim(Row.date) # <<>>
    /\ ~parse_date(Row.date).ok
    /\ FailRow("InvalidDate")

RowBadAmount ==
    /\ ReadingRow
    /\ Trim(Row.date) # <<>>
    /\ parse_date(Row.date).ok
    /\ \/ Row.debit_amount # <<>> /\ ~parse_amount(Row.debit_amount).ok
       \/ /\ Row.debit_amount = <<>>
          /\ Row.credit_amount # <<>>
          /\ ~parse_amount(Row.credit_amount).ok
    /\ FailRow("InvalidAmount")

\* variant: the counterparty is read from the debit-account column
RowDebit_CounterpartyFromDebitAccount ==
    /\ ReadingRow
    /\ Trim(Row.date) # <<>>
    /\ parse_date(Row.date).ok
    /\ Row.debit_amount # <<>>
    /\ parse_amount(Row.debit_amount).ok
    /\ NextRow(Append(transactions,
                      CsvTransaction(Row, parse_date(Row.date).val,
                                     parse_amount(Row.debit_amount).val, "Debit",
                                     IF Row.debit_account # <<>>
                                     THEN Some(extract_account(Row.debit_account))
                                     ELSE None)),
               IF Row.debit_account # <<>> /\ account = <<>>
               THEN extract_account(Row.debit_account) ELSE account)

RowDebit ==
    /\ ReadingRow
    /\ Trim(Row.date) # <<>>
    /\ parse_date(Row.date).ok
    /\ Row.debit_amount # <<>>
    /\ parse_amount(Row.debit_amount).ok
    /\ NextRow(Append(transactions,
                      CsvTransaction(Row, parse_date(Row.date).val,
                                     parse_amount(Row.debit_amount).val, "Debit",
                                     IF Row.credit_account # <<>>
                                     THEN Some(extract_account(Row.credit_account))
                                     ELSE None)),
               IF Row.debit_account # <<>> /\ account = <<>>
               THEN extract_account(Row.debit_account) ELSE account)

\* variant: every credit row with an own account sets the statement's account
RowCredit_LastWins ==
    /\ ReadingRow
    /\ Trim(Row.date) # <<>>
    /\ parse_date(Row.date).ok
    /\ Row.debit_amount = <<>>
    /\ Row.credit_amount # <<>>
    /\ parse_amount(Row.credit_amount).ok
    /\ NextRow(Append(transactions,
                      CsvTransaction(Row, parse_date(Row.date).val,
                                     parse_amount(Row.credit_amount).val, "Credit",
                                     IF Row.debit_account # <<>>
                                     THEN Some(extract_account(Row.debit_account))
                                     ELSE None)),
               IF Row.credit_account # <<>>
               THEN extract_account(Row.credit_account) ELSE account)

RowCredit ==
    /\ ReadingRow
    /\ Trim(Row.date) # <<>>
    /\ parse_date(Row.date).ok
    /\ Row.debit_amount = <<>>
    /\ Row.credit_amount # <<>>
    /\ parse_amount(Row.credit_amount).ok
    /\ NextRow(Append(transactions,
                      CsvTransaction(Row, parse_date(Row.date).val,
                                     parse_amount(Row.credit_amount).val, "Credit",
                                     IF Row.debit_account # <<>>
                                     THEN Some(extract_account(Row.debit_account))
                                     ELSE None)),
               IF Row.credit_account # <<>> /\ account = <<>>
               THEN extract_account(Row.credit_account) ELSE account)

\* the seconds chrono::Utc::now().timestamp() may give
Timestamps == {1793808000, 1793808001}

CsvPrefix == <<"C", "S", "V", "-">>

\* after the last row: the account default, the synthesized id, the Statement
FinishCsv ==
    /\ pc = "read_csv"
    /\ current_line >= Len(records)
    /\ \E now \in Timestamps :
          result' = OkResult([NewStatement(CsvPrefix \o NatToStr(now),
                                           IF account = <<>> THEN Unknown
                                           ELSE account,
                                           Rub)
                              EXCEPT !.transactions = transactions])
    /\ pc' = "done"
    /\ UNCHANGED <<stmt, statement, input, output, text, lines, current_line, statement_id, account,
                   sequence_number, currency, opening_balance, closing_balance,
                   transactions, current_transaction, transaction_description,
                   document, records>>

ReadCsv ==
    \/ RowSkipped
    \/ RowBadDate
    \/ RowBadAmount
    \/ RowDebit
    \/ RowCredit
    \/ FinishCsv

(***************************************************************************)
(* Tabular format: the statements written and read back, the rows read.    *)
(***************************************************************************)
\* description with surrounding spaces
TxPadded ==
    Tx(<<"R", "7">>, Date(2024, 12, 1), Some(Date(2024, 12, 1)), Dec(FALSE, 7, 0),
       "Debit", <<" ", "P", "A", "Y", " ">>, Some(<<"D", "E", "1">>), None, None,
       None)

CsvTransactions == {TxDescribed, TxFromParty, TxToParty, TxWithAgent, TxPadded}

CsvAccounts == {<<"A", "C", "C">>, <<>>}

CsvStatements ==
    {[StatementOf(None, None, None, txs) EXCEPT !.account = a] :
        a \in CsvAccounts, txs \in SeqsUpTo(CsvTransactions, MaxTx)}

\* blank date
RowBlank ==
    CsvRecord(<<" ">>, <<"A">>, <<>>, <<"1">>, <<>>, <<"N", "1">>, <<>>, <<>>)
\* 31 February
RowImpossibleDate ==
    CsvRecord(<<"3", "1", ".", "0", "2", ".", "2", "0", "2", "4">>,
              <<"A">>, <<>>, <<"1">>, <<>>, <<"N", "2">>, <<>>, <<>>)
\* ISO date, neither amount
RowNoAmount ==
    CsvRecord(<<"2", "0", "2", "4", "-", "0", "2", "-", "2", "0">>,
              <<"A">>, <<"B">>, <<>>, <<>>, <<"N", "3">>, <<>>, <<>>)
\* day/month/year, credit amount that is no number
RowBadCredit ==
    CsvRecord(<<"2", "0", "/", "0", "2", "/", "2", "0", "2", "4">>,
              <<>>, <<"A">>, <<>>, <<"1", "x">>, <<"N", "4">>, <<>>, <<>>)
\* month/day/year, three-line debit account, "1 540,00", bank label with marker
RowDebitRich ==
    CsvRecord(<<"0", "2", "/", "2", "0", "/", "2", "0", "2", "4">>,
              <<"4", "0", "7", "\n", "7", "7", "\n", "O", "O", "O">>, <<>>,
              <<"1", " ", "5", "4", "0", ",", "0", "0">>, <<>>,
              <<" ", "N", "5">>, <<"P", "A", "Y">>,
              <<CyrBe, CyrI, CyrKa, " ", "0", "4", "4", " ", "A", "O">>)
\* dotted date, both accounts, credit amount, bank label with the ASCII marker
RowCreditBoth ==
    CsvRecord(<<"0", "5", ".", "0", "1", ".", "2", "0", "2", "4">>,
              <<"D", "E", "1">>, <<" ", "A", "C", "C">>, <<>>, <<"7">>,
              <<"N", "6">>, <<>>, <<"B", "I", "C", " ", "X", "1", " ", "B">>)

\* dotted date, debit amount, no own account, no reference, no description
RowDebitBare ==
    CsvRecord(<<"0", "6", ".", "0", "1", ".", "2", "0", "2", "4">>,
              <<>>, <<"D", "E", "9">>, <<"5">>, <<>>, <<>>, <<>>, <<>>)

\* dotted date, both amounts, debit account whose first line is empty
RowDebitSecondLine ==
    CsvRecord(<<"0", "7", ".", "0", "1", ".", "2", "0", "2", "4">>,
              <<"\n", "7", "7">>, <<"D", "E", "8">>, <<"2">>, <<"9">>,
              <<"N", "8">>, <<>>, <<>>)

\* dotted date, credit amount, one-line debit account, three-line credit
\* account, two-line description
RowCreditRich ==
    CsvRecord(<<"0", "8", ".", "0", "1", ".", "2", "0", "2", "4">>,
              <<"D", "E", "7">>,
              <<"4", "0", "8", "\n", "7", "8", "\n", "Z", "A", "O">>, <<>>, <<"3">>,
              <<"N", "9">>, <<"F", "E", "E", "\n", "X">>, <<>>)

CsvRows == {RowBlank, RowImpossibleDate, RowNoAmount, RowBadCredit, RowDebitRich,
            RowCreditBoth, RowDebitBare, RowDebitSecondLine, RowCreditRich}

InitCsv ==
    /\ \/ /\ pc = "write_csv"
          /\ stmt \in CsvStatements
          /\ records = <<>>
       \/ /\ pc = "read_csv"
          /\ stmt = EmptyStatement
          /\ records \in SeqsUpTo(CsvRows, MaxTx)
    /\ text = <<>>
    /\ lines = <<>>
    /\ ParserStart
    /\ document = None
    /\ statement = EmptyStatement
    /\ input = None
    /\ output = None
    /\ result = NoResult

NextCsv == WriteCsv \/ ReadCsv

SpecCsv == InitCsv /\ [][NextCsv]_vars

(***************************************************************************)
(* Conversions (conversion.rs).                                            *)
(***************************************************************************)
InfoSeparator == <<" ", "|", " ">>
CounterpartyLabel ==
    <<"C", "o", "u", "n", "t", "e", "r", "p", "a", "r", "t", "y", ":", " ">>

\* variant: the separator is pushed whatever the description holds
WithSeparator_Always(description) == description \o InfoSeparator

\* description.push_str(" | ") when the description is not empty
WithSeparator(description) ==
    IF description # <<>> THEN description \o InfoSeparator ELSE description

\* the additional-info step of the transaction loop
FoldAdditionalInfo(transaction) ==
    IF IsSome(transaction.additional_info)
    THEN [transaction EXCEPT
             !.description = WithSeparator(@) \o Unwrap(transaction.additional_info)]
    ELSE transaction

\* variant: the name is moved into the description, not copied
FoldCounterparty_NameMoved(transaction) ==
    IF IsSome(transaction.counterparty_name)
    THEN [transaction EXCEPT
             !.description = WithSeparator(@) \o CounterpartyLabel
                             \o Unwrap(transaction.counterparty_name),
             !.counterparty_name = None]
    ELSE transaction

\* the counterparty step of the transaction loop
FoldCounterparty(transaction) ==
    IF IsSome(transaction.counterparty_name)
    THEN [transaction EXCEPT
             !.description = WithSeparator(@) \o CounterpartyLabel
                             \o Unwrap(transaction.counterparty_name)]
    ELSE transaction

\* impl From<Camt053Statement> for Mt940Statement
mt940_from_camt053(camt053) ==
    [camt053 EXCEPT
        !.transactions = [i \in 1..Len(camt053.transactions) |->
            FoldCounterparty(FoldAdditionalInfo(camt053.transactions[i]))]]

\* variant: the creation date is always set to today
camt053_from_mt940_AlwaysToday(mt940, now) ==
    [mt940 EXCEPT !.creation_date = Some(now)]

\* impl From<Mt940Statement> for Camt053Statement
camt053_from_mt940(mt940, now) ==
    IF IsNone(mt940.creation_date)
    THEN [mt940 EXCEPT !.creation_date = Some(now)]
    ELSE mt940

\* the statement a conversion is applied to: the given one, or the one the
\* previous conversion returned, wrapped again
Converted == IF result.status = "none" THEN stmt ELSE result.statement

\* Mt940Statement::from(Camt053Statement), applied once and once more
ConvertToMt940 ==
    /\ pc \in {"convert", "mt940_once"}
    /\ result' = OkResult(mt940_from_camt053(Converted))
    /\ pc' = IF pc = "convert" THEN "mt940_once" ELSE "mt940_twice"
    /\ UNCHANGED <<stmt, statement, input, output, text, lines, current_line, statement_id, account,
                   sequence_number, currency, opening_balance, closing_balance,
                   transactions, current_transaction, transaction_description,
                   document, records>>

\* Camt053Statement::from(Mt940Statement), applied once and once more
ConvertToCamt053 ==
    /\ pc \in {"convert", "camt053_once"}
    /\ \E now \in Today : result' = OkResult(camt053_from_mt940(Converted, now))
    /\ pc' = IF pc = "convert" THEN "camt053_once" ELSE "camt053_twice"
    /\ UNCHANGED <<stmt, statement, input, output, text, lines, current_line, statement_id, account,
                   sequence_number, currency, opening_balance, closing_balance,
                   transactions, current_transaction, transaction_description,
                   document, records>>

ConvDescriptions == {<<>>, <<"P", "A", "Y">>}
ConvInfos == {None, Some(<<>>), Some(<<"N", "O", "T", "E">>)}
ConvNames == {None, Some(<<"B", "O", "B">>)}

ConvTransactions ==
    {Tx(<<"R", "1">>, Date(2024, 1, 3), Some(Date(2024, 1, 2)), Dec(FALSE, 1250, 2),
        "Debit", d, None, n, None, a) :
        d \in ConvDescriptions, a \in ConvInfos, n \in ConvNames}

ConvStatements ==
    {[StatementOf(Some(<<"1">>), o, None, txs) EXCEPT !.creation_date = c] :
        o \in OpeningBalances, c \in {None, Some(Date(2024, 2, 1))},
        txs \in SeqsUpTo(ConvTransactions, MaxTx)}

InitConv ==
    /\ pc = "convert"
    /\ stmt \in ConvStatements
    /\ text = <<>>
    /\ lines = <<>>
    /\ ParserStart
    /\ document = None
    /\ statement = EmptyStatement
    /\ input = None
    /\ output = None
    /\ records = <<>>
    /\ result = NoResult

NextConv == ConvertToMt940 \/ ConvertToCamt053

SpecConv == InitConv /\ [][NextConv]_vars

(***************************************************************************)
(* Line-format parsing of documents with missing, blank and malformed      *)
(* lines.                                                                   *)
(***************************************************************************)
\* a :20: line whose content is blank
LineIdBlank == Tag20 \o <<" ">>
\* value date 2024-01-05, entry date 0105, credit, amount text "-7"
LineTxNegative == Tag61 \o <<"2", "4", "0", "1", "0", "5", "0", "1", "0", "5", "C",
                             "-", "7", "N", "T", "R", "F", "/", "/", "R", "3">>
\* nothing after the "//"
LineTxNoReference == Tag61 \o <<"2", "4", "0", "1", "0", "5", "0", "1", "0", "5", "D",
                                "5", "N", "T", "R", "F", "/", "/">>
\* fewer than six characters of content
LineTxShort == Tag61 \o <<"2", "4">>

InputHeads ==
    {<<>>, <<LineId>>, <<LineAcct>>, <<LineIdBlank, LineAcct>>, <<LineId, LineAcct>>,
     <<LineContA, LineId, LineAcct, LineSeq>>}
InputBodyLines ==
    {LineOpening, LineTxB, LineTxNegative, LineTxNoReference, LineTxShort, LineInfoA}
InputTails == {<<>>, <<LineClosing>>}

InitLineInputs ==
    /\ pc = "parse_mt940"
    /\ stmt = EmptyStatement
    /\ text = <<>>
    /\ lines \in {h \o b \o t : h \in InputHeads,
                                b \in SeqsUpTo(InputBodyLines, MaxBody),
                                t \in InputTails}
    /\ ParserStart
    /\ document = None
    /\ statement = EmptyStatement
    /\ input = None
    /\ output = None
    /\ records = <<>>
    /\ result = NoResult

SpecLineInputs == InitLineInputs /\ [][Next]_vars

(***************************************************************************)
(* Line-format dates: format_mt940_date and parse_mt940_date applied to    *)
(* dates and to six-character fields.                                      *)
(***************************************************************************)
YearFields == {<<"0", "0">>, <<"2", "4">>, <<"4", "9">>, <<"5", "0">>, <<"9", "9">>,
               <<"+", "5">>, <<"-", "5">>, <<"4", "x">>}
MonthFields == {<<"0", "0">>, <<"0", "1">>, <<"0", "2">>, <<"1", "2">>, <<"1", "3">>}
DayFields == {<<"0", "1">>, <<"2", "9">>, <<"3", "1">>}
DateFields == {y \o m \o d : y \in YearFields, m \in MonthFields, d \in DayFields}

DateValues ==
    {date \in {Date(y, m, d) : y \in {1949, 1950, 1999, 2000, 2024, 2049, 2050},
                               m \in {1, 2, 12}, d \in {1, 29, 31}} :
        IsSome(FromYmdOpt(date.year, date.month, date.day))}

DateIdle ==
    UNCHANGED <<stmt, statement, lines, current_line, statement_id, account,
                sequence_number, currency, opening_balance, closing_balance,
                transactions, current_transaction, transaction_description,
                document, records, result>>

\* format_mt940_date(&date)
FormatMt940Date ==
    /\ pc = "format_mt940_date"
    /\ text' = format_mt940_date(Unwrap(input))
    /\ pc' = "parse_mt940_date"
    /\ UNCHANGED <<input, output>>
    /\ DateIdle

\* parse_mt940_date(date_str)
ParseMt940Date ==
    /\ pc = "parse_mt940_date"
    /\ output' = Some(parse_mt940_date(text))
    /\ pc' = "done"
    /\ UNCHANGED <<input, text>>
    /\ DateIdle

InitMt940Date ==
    /\ \/ pc = "format_mt940_date" /\ input \in {Some(d) : d \in DateValues}
          /\ text = <<>>
       \/ pc = "parse_mt940_date" /\ input = None /\ text \in DateFields
    /\ stmt = EmptyStatement
    /\ lines = <<>>
    /\ ParserStart
    /\ document = None
    /\ statement = EmptyStatement
    /\ output = None
    /\ records = <<>>
    /\ result = NoResult

NextMt940Date == FormatMt940Date \/ ParseMt940Date

SpecMt940Date == InitMt940Date /\ [][NextMt940Date]_vars

(***************************************************************************)
(* Structured parsing of documents not written by write_to: balances with  *)
(* any code, amounts with and without a currency attribute, entries        *)
(* without a reference.                                                    *)
(***************************************************************************)
Eur == <<"E", "U", "R">>

\* a <Bal> element: credit, dated 2024-01-01
RawBalance(cd, value, ccy) ==
    [cd |-> cd,
     amt |-> AmountXml(value, ccy),
     cdt_dbt_ind |-> <<"C", "R", "D", "T">>,
     dt |-> DateXml(Some(<<"2", "0", "2", "4", "-", "0", "1", "-", "0", "1">>), None)]

RawBalances ==
    {RawBalance(Opbd, <<"1">>, Some(Eur)),
     RawBalance(Opav, <<"2">>, None),
     RawBalance(Clbd, <<"3">>, None),
     RawBalance(Clav, <<"4">>, Some(Usd)),
     RawBalance(Prcd, <<"5">>, Some(Usd)),
     RawBalance(<<"I", "T", "B", "D">>, <<"6">>, None),
     RawBalance(<<"o", "p", "b", "d">>, <<"7">>, Some(Usd)),
     RawBalance(Clbd, <<"x">>, Some(Usd))}

\* an <Ntry> element without <NtryRef> and without a currency attribute
RawEntryBare ==
    [EntryXmlOf(TxFromParty) EXCEPT !.ntry_ref = None, !.amt.ccy = None]

\* an <Ntry> element with the given <RltdPties>
RawEntryWithParties(parties) ==
    [EntryXmlOf(TxFromParty) EXCEPT
        !.ntry_dtls = Some([tx_dtls |-> Some(
            [rltd_pties |-> Some(parties), rltd_agts |-> None,
             rmt_inf |-> None, addtl_tx_inf |-> None])])]

Bob == <<"B", "O", "B">>
Ann == <<"A", "N", "N">>
PartyNamed(nm) == Some([nm |-> Some(nm)])
\* a <Dbtr> or <Cdtr> element without <Nm>
PartyNameless == Some([nm |-> None])
AccountWithIban(iban) == Some([id |-> AccountIdXml(Some(iban), None)])
\* a <DbtrAcct> or <CdtrAcct> element whose <Id> has neither IBAN nor Othr
AccountWithoutId == Some([id |-> AccountIdXml(None, None)])

\* debtor named and with an account, creditor present without name and account id
RawEntryCreditorNameless ==
    RawEntryWithParties([dbtr |-> PartyNamed(Bob), dbtr_acct |-> AccountWithIban(<<"D", "E", "1">>),
                         cdtr |-> PartyNameless, cdtr_acct |-> AccountWithoutId])
\* creditor named and with an account, debtor present without name and account id
RawEntryDebtorNameless ==
    RawEntryWithParties([dbtr |-> PartyNameless, dbtr_acct |-> AccountWithoutId,
                         cdtr |-> PartyNamed(Ann), cdtr_acct |-> AccountWithIban(<<"D", "E", "2">>)])
\* both named, both with an account
RawEntryBothNamed ==
    RawEntryWithParties([dbtr |-> PartyNamed(Bob), dbtr_acct |-> AccountWithIban(<<"D", "E", "1">>),
                         cdtr |-> PartyNamed(Ann), cdtr_acct |-> AccountWithIban(<<"D", "E", "2">>)])

RawEntries ==
    {<<>>, <<RawEntryBare>>, <<EntryXmlOf(TxToParty), RawEntryBare>>,
     <<RawEntryDebtorNameless, RawEntryBothNamed>>, <<RawEntryCreditorNameless>>}

\* documents of account ACC in USD
RawDocuments ==
    {[to_document(StatementOf(None, None, None, <<>>), Date(2024, 2, 1)) EXCEPT
         !.stmt.bal = bal, !.stmt.ntry = ntry] :
        bal \in SeqsUpTo(RawBalances, MaxTx), ntry \in RawEntries}

InitCamtRead ==
    /\ pc = "read_camt053"
    /\ stmt = EmptyStatement
    /\ text = <<>>
    /\ lines = <<>>
    /\ ParserStart
    /\ document \in {Some(doc) : doc \in RawDocuments}
    /\ statement = EmptyStatement
    /\ input = None
    /\ output = None
    /\ records = <<>>
    /\ result = NoResult

NextCamtRead == ReadCamt053 \/ from_document

SpecCamtRead == InitCamtRead /\ [][NextCamtRead]_vars

(***************************************************************************)
(* Format names (lib.rs): impl FromStr for Format.                         *)
(***************************************************************************)
\* Error::InvalidFormat(String)
InvalidFormat(s) == [variant |-> "InvalidFormat", text |-> s]

\* variant: the name is matched as written
FormatFromStr_CaseSensitive(s) ==
    IF s \in {<<"m", "t", "9", "4", "0">>, <<"m", "t", "-", "9", "4", "0">>,
              <<"s", "w", "i", "f", "t">>}
    THEN Ok("Mt940")
    ELSE IF s \in {<<"c", "a", "m", "t", "0", "5", "3">>,
                   <<"c", "a", "m", "t", ".", "0", "5", "3">>,
                   <<"c", "a", "m", "t">>, <<"x", "m", "l">>}
    THEN Ok("Camt053")
    ELSE IF s = <<"c", "s", "v">> THEN Ok("Csv")
    ELSE Err(InvalidFormat(s))

\* Format::from_str
FormatFromStr(s) ==
    LET lower == ToLowercase(s)
    IN IF lower \in {<<"m", "t", "9", "4", "0">>, <<"m", "t", "-", "9", "4", "0">>,
                     <<"s", "w", "i", "f", "t">>}
       THEN Ok("Mt940")
       ELSE IF lower \in {<<"c", "a", "m", "t", "0", "5", "3">>,
                          <<"c", "a", "m", "t", ".", "0", "5", "3">>,
                          <<"c", "a", "m", "t">>, <<"x", "m", "l">>}
       THEN Ok("Camt053")
       ELSE IF lower = <<"c", "s", "v">> THEN Ok("Csv")
       ELSE Err(InvalidFormat(s))

\* the ways of writing a lower-case text in mixed case
CaseVariants(s) ==
    {[i \in 1..Len(s) |-> IF i \in upper THEN ToUpperChar(s[i]) ELSE s[i]] :
        upper \in SUBSET (1..Len(s))}

\* names in every mix of cases: the eight accepted ones, and near misses
LowerNames ==
    {<<"m", "t", "9", "4", "0">>, <<"m", "t", "-", "9", "4", "0">>,
     <<"s", "w", "i", "f", "t">>, <<"c", "a", "m", "t", "0", "5", "3">>,
     <<"c", "a", "m", "t", ".", "0", "5", "3">>, <<"c", "a", "m", "t">>,
     <<"x", "m", "l">>, <<"c", "s", "v">>,
     <<>>, <<"j", "s", "o", "n">>, <<"m", "t", "9", "4">>,
     <<"m", "t", "_", "9", "4", "0">>, <<"m", "t", " ", "9", "4", "0">>,
     <<"9", "4", "0">>, <<"c", "a", "m", "t", "-", "0", "5", "3">>,
     <<"c", "a", "m", "t", "0", "5", "4">>, <<"0", "5", "3">>,
     <<" ", "c", "s", "v">>, <<"c", "s", "v", " ">>, <<"c", "s", "v", "s">>,
     <<".", "x", "m", "l">>, <<"t", "x", "t">>}

FormatNames == UNION {CaseVariants(s) : s \in LowerNames}

FormatIdle ==
    UNCHANGED <<stmt, statement, text, lines, current_line, statement_id, account,
                sequence_number, currency, opening_balance, closing_balance,
                transactions, current_transaction, transaction_description,
                document, records, result, input>>

\* "name".parse::<Format>()
ParseFormat ==
    /\ pc = "from_str"
    /\ output' = Some(FormatFromStr(Unwrap(input)))
    /\ pc' = "done"
    /\ FormatIdle

InitFormat ==
    /\ pc = "from_str"
    /\ stmt = EmptyStatement
    /\ text = <<>>
    /\ lines = <<>>
    /\ ParserStart
    /\ document = None
    /\ statement = EmptyStatement
    /\ input \in {Some(name) : name \in FormatNames}
    /\ output = None
    /\ records = <<>>
    /\ result = NoResult

NextFormat == ParseFormat

SpecFormat == InitFormat /\ [][NextFormat]_vars

(***************************************************************************)
(* Tabular format: the bank column on its own.                             *)
(***************************************************************************)
\* bank cells: text before the marker, a marker or something like one, the
\* identifier, text after it
BankPrefixes == {<<>>, <<"A", "O", " ">>, <<" ">>}
BankMarkers ==
    {<<>>, BicMarkerLocal, BicMarkerAscii, <<"b", "i", "c", " ">>, <<"B", "I", "C">>,
     BicMarkerAscii \o <<"X", " ">> \o BicMarkerLocal}
BankTokens == {<<>>, <<"0", "4", "4">>, <<" ", "X", "1">>}
BankSuffixes == {<<>>, <<" ", "A", "O">>, <<"\t", "B", " ", "C", " ">>}

BankFields ==
    {prefix \o marker \o token \o suffix :
        prefix \in BankPrefixes, marker \in BankMarkers, token \in BankTokens,
        suffix \in BankSuffixes}

BankIdle ==
    UNCHANGED <<stmt, statement, text, lines, current_line, statement_id, account,
                sequence_number, currency, opening_balance, closing_balance,
                transactions, current_transaction, transaction_description,
                document, records, result, input>>

\* the bank_identifier from_read gives a row for its bank cell
BankIdentifier ==
    /\ pc = "extract_bic"
    /\ output' = IF Unwrap(input) # <<>> THEN Some(extract_bic(Unwrap(input)))
                 ELSE None
    /\ pc' = "done"
    /\ BankIdle

InitBank ==
    /\ pc = "extract_bic"
    /\ stmt = EmptyStatement
    /\ text = <<>>
    /\ lines = <<>>
    /\ ParserStart
    /\ document = None
    /\ statement = EmptyStatement
    /\ input \in {Some(bank) : bank \in BankFields}
    /\ output = None
    /\ records = <<>>
    /\ result = NoResult

NextBank == BankIdentifier

SpecBank == InitBank /\ [][NextBank]_vars

(***************************************************************************)
(* Tabular format: the date column on its own.                             *)
(***************************************************************************)
\* three fields joined by one separator, and a few texts that are no date
CsvDateFields ==
    {<<"0", "2">>, <<"0", "3">>, <<"1", "2">>, <<"1", "3">>, <<"3", "1">>,
     <<"2", "0", "2", "4">>, <<"0", "0">>}
CsvDateSeparators == {".", "-", "/"}

CsvDateTexts ==
    {a \o <<sep>> \o b \o <<sep>> \o c :
        a \in CsvDateFields, b \in CsvDateFields, c \in CsvDateFields,
        sep \in CsvDateSeparators}
    \cup {<<>>, <<"x">>, <<"0", "2", ".", "0", "3", "/", "2", "0", "2", "4">>,
          <<"0", "2", "/", "0", "3">>, <<"0", "2", "0", "3", "2", "0", "2", "4">>,
          <<" ", "0", "2", "/", "0", "3", "/", "2", "0", "2", "4", " ">>,
          <<"0", "2", "/", "0", "3", "/", "2", "0", "2", "4", "x">>}

CsvDateIdle ==
    UNCHANGED <<stmt, statement, text, lines, current_line, statement_id, account,
                sequence_number, currency, opening_balance, closing_balance,
                transactions, current_transaction, transaction_description,
                document, records, result, input>>

\* CsvStatement::parse_date(text)
ParseCsvDate ==
    /\ pc = "parse_date"
    /\ output' = Some(parse_date(Unwrap(input)))
    /\ pc' = "done"
    /\ CsvDateIdle

InitCsvDate ==
    /\ pc = "parse_date"
    /\ stmt = EmptyStatement
    /\ text = <<>>
    /\ lines = <<>>
    /\ ParserStart
    /\ document = None
    /\ statement = EmptyStatement
    /\ input \in {Some(t) : t \in CsvDateTexts}
    /\ output = None
    /\ records = <<>>
    /\ result = NoResult

NextCsvDate == ParseCsvDate

SpecCsvDate == InitCsvDate /\ [][NextCsvDate]_vars

(***************************************************************************)
(* Comparer (bin/comparer.rs): compare_statements.                         *)
(***************************************************************************)
\* Decimal's ==: equality of the numbers, whatever the scales
DecimalEq(a, b) ==
    /\ a.mant * Pow10(b.scale) = b.mant * Pow10(a.scale)
    /\ a.mant # 0 => a.neg = b.neg

\* {:?} of a DebitCredit
DebugDebitCredit(dc) ==
    IF dc = "Debit" THEN <<"D", "e", "b", "i", "t">> ELSE <<"C", "r", "e", "d", "i", "t">>

IsAlphanumeric(c) == IsAlphabetic(c) \/ IsAsciiDigit(c) \/ c \in {CyrBe, CyrI, CyrKa}

IsKept(c) == c # "dropped"

IsWordOrSpace(c) == IsAlphanumeric(c) \/ IsWhitespace(c)

\* normalize_string: lower case, letters, digits and white space only, the
\* words joined by single spaces
normalize_string(s) ==
    LET lower == ToLowercase(Trim(s))
        f == SelectSeq(lower, IsWordOrSpace)
        between(i) == /\ IsWhitespace(f[i])
                      /\ i > 1 /\ ~IsWhitespace(f[i - 1])
                      /\ \E j \in (i + 1)..Len(f) : ~IsWhitespace(f[j])
    IN SelectSeq([i \in 1..Len(f) |->
                     IF ~IsWhitespace(f[i]) THEN f[i]
                     ELSE IF between(i) THEN " " ELSE "dropped"],
                 IsKept)

TransactionLabel(i) == <<"T", "r", "a", "n", "s", "a", "c", "t", "i", "o", "n", " ">> \o NatToStr(i + 1)

DateDifference(i, tx1, tx2) ==
    TransactionLabel(i) \o <<" ", "d", "a", "t", "e", " ", "d", "i", "f", "f", "e", "r", "s", ":",
      " ">> \o format_date_only(tx1.date)
        \o <<" ", "v", "s", " ">> \o format_date_only(tx2.date)

\* variant: the index is cited as the loop counts it, from 0
AmountDifference_ZeroBased(i, tx1, tx2) ==
    <<"T", "r", "a", "n", "s", "a", "c", "t", "i", "o", "n", " ">> \o NatToStr(i) \o <<" ", "a", "m", "o", "u", "n", "t", " ", "d", "i", "f", "f", "e", "r",
      "s", ":", " ">>
        \o DecimalToString(tx1.amount) \o <<" ", "v", "s", " ">> \o DecimalToString(tx2.amount)

AmountDifference(i, tx1, tx2) ==
    TransactionLabel(i) \o <<" ", "a", "m", "o", "u", "n", "t", " ", "d", "i", "f", "f", "e", "r",
      "s", ":", " ">> \o DecimalToString(tx1.amount)
        \o <<" ", "v", "s", " ">> \o DecimalToString(tx2.amount)

TypeDifference(i, tx1, tx2) ==
    TransactionLabel(i) \o <<" ", "t", "y", "p", "e", " ", "d", "i", "f", "f", "e", "r", "s", ":",
      " ">> \o DebugDebitCredit(tx1.debit_credit)
        \o <<" ", "v", "s", " ">> \o DebugDebitCredit(tx2.debit_credit)

DescriptionDifference(i, tx1, tx2) ==
    TransactionLabel(i) \o <<" ", "d", "e", "s", "c", "r", "i", "p", "t", "i", "o", "n", " ", "d",
      "i", "f", "f", "e", "r", "s", ":", "\n", " ", " ", "F", "i", "l",
      "e", " ", "1", ":", " ">> \o tx1.description
        \o <<"\n", " ", " ", "F", "i", "l", "e", " ", "2", ":", " ">> \o tx2.description

\* the differences pushed by iteration i (0-based) of the transaction loop
TransactionDifferences(i, tx1, tx2) ==
    (IF tx1.date # tx2.date THEN <<DateDifference(i, tx1, tx2)>> ELSE <<>>)
    \o (IF ~DecimalEq(tx1.amount, tx2.amount)
        THEN <<AmountDifference(i, tx1, tx2)>> ELSE <<>>)
    \o (IF tx1.debit_credit # tx2.debit_credit
        THEN <<TypeDifference(i, tx1, tx2)>> ELSE <<>>)
    \o (LET desc1 == normalize_string(tx1.description)
            desc2 == normalize_string(tx2.description)
        IN IF desc1 # desc2 /\ desc1 # <<>> /\ desc2 # <<>>
           THEN <<DescriptionDifference(i, tx1, tx2)>> ELSE <<>>)

\* the difference pushed for a pair of balances
BalanceDifference(label, bal1, bal2) ==
    IF IsSome(bal1) /\ IsSome(bal2)
       /\ ~DecimalEq(Unwrap(bal1).amount, Unwrap(bal2).amount)
    THEN <<label \o <<" ", "b", "a", "l", "a", "n", "c", "e", " ", "d", "i", "f", "f", "e",
      "r", "s", ":", " ">> \o DecimalToString(Unwrap(bal1).amount)
            \o <<" ", "v", "s", " ">> \o DecimalToString(Unwrap(bal2).amount)>>
    ELSE <<>>

Min(a, b) == IF a < b THEN a ELSE b

\* the `differences` vector of compare_statements
Differences(stmt1, stmt2) ==
    (IF Len(stmt1.transactions) # Len(stmt2.transactions)
     THEN <<<<"N", "u", "m", "b", "e", "r", " ", "o", "f", " ", "t", "r", "a", "n",
      "s", "a", "c", "t", "i", "o", "n", "s", " ", "d", "i", "f", "f",
      "e", "r", "s", ":", " ">> \o NatToStr(Len(stmt1.transactions))
             \o <<" ", "v", "s", " ">> \o NatToStr(Len(stmt2.transactions))>>
     ELSE <<>>)
    \o Concat([k \in 1..Min(Len(stmt1.transactions), Len(stmt2.transactions)) |->
                  TransactionDifferences(k - 1, stmt1.transactions[k],
                                         stmt2.transactions[k])])
    \o BalanceDifference(<<"O", "p", "e", "n", "i", "n", "g">>, stmt1.opening_balance, stmt2.opening_balance)
    \o BalanceDifference(<<"C", "l", "o", "s", "i", "n", "g">>, stmt1.closing_balance, stmt2.closing_balance)

RecordsIdentical ==
    <<"T", "h", "e", " ", "t", "r", "a", "n", "s", "a", "c", "t", "i", "o",
      "n", " ", "r", "e", "c", "o", "r", "d", "s", " ", "i", "n", " ",
      "'", "f", "i", "l", "e", "1", "'", " ", "a", "n", "d", " ", "'",
      "f", "i", "l", "e", "2", "'", " ", "a", "r", "e", " ", "i", "d",
      "e", "n", "t", "i", "c", "a", "l", ".">>

DifferencesFound == <<"D", "i", "f", "f", "e", "r", "e", "n", "c", "e", "s", " ", "f", "o",
      "u", "n", "d", ":", "\n">>

\* one "  - ...\n" entry of the report
DifferenceEntry(diff) == <<" ", " ", "-", " ">> \o diff \o <<"\n">>

\* compare_statements
compare_statements(stmt1, stmt2) ==
    LET differences == Differences(stmt1, stmt2)
    IN IF differences = <<>> THEN RecordsIdentical
       ELSE DifferencesFound
                \o Concat([k \in 1..Len(differences) |->
                              DifferenceEntry(differences[k])])

\* the statements compared: transactions that differ in one field each
TxFive == Tx(<<"R", "1">>, Date(2024, 1, 3), None, Dec(FALSE, 5, 0), "Debit",
             <<"P", "a", "y", ",", " ", "1">>, None, None, None, None)
TxFiveScaled == [TxFive EXCEPT !.amount = Dec(FALSE, 50, 1)]
TxSeven == [TxFive EXCEPT !.amount = Dec(FALSE, 7, 0)]
TxLater == [TxFive EXCEPT !.date = Date(2024, 1, 4), !.debit_credit = "Credit",
                          !.description = <<"F", "E", "E">>]

CompareTransactions == {TxFive, TxFiveScaled, TxSeven, TxLater}

CompareBalances ==
    {None,
     Some(Balance("Opening", Dec(FALSE, 10000, 2), Usd, "Credit", Date(2024, 1, 1))),
     Some(Balance("Opening", Dec(TRUE, 3, 0), Usd, "Debit", Date(2024, 1, 1)))}

CompareStatements ==
    {StatementOf(None, o, None, txs) :
        o \in CompareBalances, txs \in SeqsUpTo(CompareTransactions, MaxTx)}

CompareIdle ==
    UNCHANGED <<stmt, statement, text, lines, current_line, statement_id, account,
                sequence_number, currency, opening_balance, closing_balance,
                transactions, current_transaction, transaction_description,
                document, records, result, input>>

\* run: compare_statements(&statement1, &statement2)
Compare ==
    /\ pc = "compare_statements"
    /\ output' = Some(compare_statements(stmt, statement))
    /\ pc' = "done"
    /\ CompareIdle

InitCompare ==
    /\ pc = "compare_statements"
    /\ stmt \in CompareStatements
    /\ statement \in CompareStatements
    /\ text = <<>>
    /\ lines = <<>>
    /\ ParserStart
    /\ document = None
    /\ input = None
    /\ output = None
    /\ records = <<>>
    /\ result = NoResult

NextCompare == Compare

SpecCompare == InitCompare /\ [][NextCompare]_vars

(***************************************************************************)
(* Line format: the :61: line on its own.                                  *)
(***************************************************************************)
\* :61: lines: value date, entry date or none, D/C mark, amount, the rest
TxLineValueDates == {<<"2", "4", "0", "1", "0", "5">>, <<"9", "9", "1", "2", "3", "1">>}
TxLineEntryDates == {<<>>, <<"0", "1", "0", "6">>, <<"1", "2", "3", "0">>}
TxLineMarks == {<<"C">>, <<"D">>}
TxLineAmounts ==
    {<<"7">>, <<"5", ",", "0", "0">>, <<"1", "2", ",", "5", "0">>, <<"1", "0", "0">>}
TxLineRests == {<<"N", "T", "R", "F", "/", "/", "R", "1">>, <<>>}

TxLines ==
    {Tag61 \o value_date \o entry_date \o mark \o amount \o rest :
        value_date \in TxLineValueDates, entry_date \in TxLineEntryDates,
        mark \in TxLineMarks, amount \in TxLineAmounts, rest \in TxLineRests}

TxLineIdle ==
    UNCHANGED <<stmt, statement, text, lines, current_line, statement_id, account,
                sequence_number, currency, opening_balance, closing_balance,
                transactions, current_transaction, transaction_description,
                document, records, result, input>>

\* Self::parse_transaction_line(line, &currency)
ParseTransactionLine ==
    /\ pc = "parse_transaction_line"
    /\ output' = Some(parse_transaction_line(Unwrap(input), Usd))
    /\ pc' = "done"
    /\ TxLineIdle

InitTxLine ==
    /\ pc = "parse_transaction_line"
    /\ stmt = EmptyStatement
    /\ text = <<>>
    /\ lines = <<>>
    /\ ParserStart
    /\ document = None
    /\ statement = EmptyStatement
    /\ input \in {Some(line) : line \in TxLines}
    /\ output = None
    /\ records = <<>>
    /\ result = NoResult

NextTxLine == ParseTransactionLine

SpecTxLine == InitTxLine /\ [][NextTxLine]_vars

(***************************************************************************)
(* Formats (lib.rs): a format's file extension, given back as a name.      *)
(***************************************************************************)
Formats == {"Mt940", "Camt053", "Csv"}

\* variant: the extension with its dot
extension_Dotted(format) ==
    IF format = "Mt940" THEN <<".", "m", "t", "9", "4", "0">>
    ELSE IF format = "Camt053" THEN <<".", "x", "m", "l">>
    ELSE <<".", "c", "s", "v">>

\* Format::extension
extension(format) ==
    IF format = "Mt940" THEN <<"m", "t", "9", "4", "0">>
    ELSE IF format = "Camt053" THEN <<"x", "m", "l">>
    ELSE <<"c", "s", "v">>

\* name.parse::<Format>(), the format kept when the name is one
ParseFormatName ==
    /\ pc = "from_str"
    /\ output' = Some(FormatFromStr(Unwrap(input)))
    /\ pc' = IF FormatFromStr(Unwrap(input)).ok THEN "extension" ELSE "done"
    /\ FormatIdle

\* format.extension()
TakeExtension ==
    /\ pc = "extension"
    /\ text' = extension(Unwrap(output).val)
    /\ pc' = "from_extension"
    /\ UNCHANGED <<stmt, statement, lines, current_line, statement_id, account,
                   sequence_number, currency, opening_balance, closing_balance,
                   transactions, current_transaction, transaction_description,
                   document, records, result, input, output>>

\* format.extension().parse::<Format>()
ParseExtension ==
    /\ pc = "from_extension"
    /\ output' = Some(FormatFromStr(text))
    /\ pc' = "done"
    /\ UNCHANGED <<stmt, statement, text, lines, current_line, statement_id, account,
                   sequence_number, currency, opening_balance, closing_balance,
                   transactions, current_transaction, transaction_description,
                   document, records, result, input>>

NextExtension == ParseFormatName \/ TakeExtension \/ ParseExtension

SpecExtension == InitFormat /\ [][NextExtension]_vars

(***************************************************************************)
(* Line-format parsing: what the document says, read off `lines` alone.    *)
(***************************************************************************)
IsTagged(line) == StartsWith(line, <<":">>)

\* 1-based positions of the :61: lines, and the k-th of them
TxLineIndexes == {i \in 1..Len(lines) : StartsWith(lines[i], Tag61)}
TxLineIndex(k) ==
    CHOOSE i \in TxLineIndexes : Cardinality({j \in TxLineIndexes : j <= i}) = k

\* how many untagged lines directly follow line i
ContinuationCount(i) ==
    CHOOSE k \in 0..(Len(lines) - i) :
        /\ \A j \in 1..k : ~IsTagged(lines[i + j])
        /\ i + k = Len(lines) \/ IsTagged(lines[i + k + 1])

RECURSIVE JoinWithSpaces(_)
JoinWithSpaces(fragments) ==
    IF Len(fragments) = 1 THEN fragments[1]
    ELSE JoinWithSpaces(SubSeq(fragments, 1, Len(fragments) - 1))
             \o <<" ">> \o fragments[Len(fragments)]

\* the :86: line at position i with its continuation lines, as one text
MergedInfo(i) ==
    JoinWithSpaces(<<Trim(SubSeq(lines[i], 5, Len(lines[i])))>>
                   \o [j \in 1..ContinuationCount(i) |-> Trim(lines[i + j])])

\* the lines that belong to the k-th transaction: after its own :61: line and
\* before the next :61: line or the end of the input
OwnLines(k) ==
    LET from == TxLineIndex(k)
        later == {i \in TxLineIndexes : i > from}
        to == IF later = {} THEN Len(lines) + 1
              ELSE CHOOSE i \in later : \A j \in later : i <= j
    IN (from + 1)..(to - 1)

OwnInfoLines(k) == {i \in OwnLines(k) : StartsWith(lines[i], Tag86)}

Parsed == pc = "done" /\ result.status = "ok"

(***************************************************************************)
(* C8: in Line-format parsing a :86: line describes only the immediately   *)
(* preceding transaction: every transaction's description is the trimmed   *)
(* text of a :86: line (with its continuation lines) found after its own   *)
(* :61: line and before the next :61: line or the end of the input, it is  *)
(* empty when there is no such line, and a :86: line before the first :61: *)
(* line contributes to no description.  The code carries the text of a     *)
(* :86: line that precedes the first :61: line over to the first           *)
(* transaction, so TLC refutes this statement.                             *)
(***************************************************************************)
C8_InfoDescribesPrecedingTransaction ==
    Parsed =>
        \A k \in 1..Len(result.statement.transactions) :
            LET d == result.statement.transactions[k].description
            IN IF OwnInfoLines(k) = {} THEN d = <<>>
               ELSE \E i \in OwnInfoLines(k) : d = Trim(MergedInfo(i))

(***************************************************************************)
(* C9: Line-format continuation merging.  A :86: line followed by k >= 0   *)
(* consecutive lines that do not start with ':' yields one description:    *)
(* the :86: content and the k fragments joined by single spaces; the merge *)
(* stops at the first line starting with ':' or at the end of the input    *)
(* (the scan resumes right there), and the text attached to a transaction  *)
(* is that description, trimmed.                                           *)
(***************************************************************************)
C9_ContinuationMerging ==
    [][/\ Scanning("86") =>
            /\ transaction_description' = MergedInfo(current_line + 1)
            /\ current_line' = current_line + ContinuationCount(current_line + 1) + 1
       /\ Len(transactions') = Len(transactions) + 1 =>
            transactions'[Len(transactions')].description
                = Trim(transaction_description)]_vars

\* a :86: line and two continuation lines have just been merged
C9_Witness ==
    /\ pc = "parse_mt940"
    /\ current_line >= 3
    /\ StartsWith(lines[current_line - 2], Tag86)
    /\ ~IsTagged(lines[current_line - 1])
    /\ ~IsTagged(lines[current_line])
    /\ transaction_description =
           Trim(SubSeq(lines[current_line - 2], 5, Len(lines[current_line - 2])))
           \o <<" ">> \o Trim(lines[current_line - 1])
           \o <<" ">> \o Trim(lines[current_line])

(***************************************************************************)
(* C10: every successful Line-format parse returns exactly one Transaction *)
(* per :61: line, in the document order of those lines; the transaction of *)
(* the last :61: line is included, and while scanning none is emitted      *)
(* twice or lost: the emitted transactions plus the one in progress are    *)
(* exactly the :61: lines scanned so far.                                  *)
(***************************************************************************)
SameEntry(t, line) ==
    LET p == parse_transaction_line(line, <<>>)
    IN /\ p.ok
       /\ t.reference = p.val.reference
       /\ t.date = p.val.date
       /\ t.value_date = p.val.value_date
       /\ t.amount = p.val.amount
       /\ t.debit_credit = p.val.debit_credit

C10_OneTransactionPerEntryLine ==
    /\ Parsed =>
        /\ Len(result.statement.transactions) = Cardinality(TxLineIndexes)
        /\ \A k \in 1..Len(result.statement.transactions) :
               SameEntry(result.statement.transactions[k], lines[TxLineIndex(k)])
    /\ pc = "parse_mt940" =>
        LET scanned == {i \in TxLineIndexes : i <= current_line}
            all == transactions \o current_transaction
        IN /\ Len(all) = Cardinality(scanned)
           /\ \A k \in 1..Len(all) : SameEntry(all[k], lines[TxLineIndex(k)])

\* two different :61: lines were parsed, the second flushed at the end of input
C10_Witness ==
    /\ Parsed
    /\ Len(result.statement.transactions) = 2
    /\ result.statement.transactions[1].reference = <<"R", "2">>
    /\ result.statement.transactions[2].reference = <<"R", "1">>
    /\ StartsWith(lines[Len(lines)], Tag61)

(***************************************************************************)
(* C1: Line-format round trip.  For every valid Statement s with non-empty *)
(* statement_id and account (with or without opening and closing balance,  *)
(* transactions with or without a description), parsing the Line-format    *)
(* serialization of s succeeds and yields the same statement_id, account,   *)
(* sequence_number, currency, opening and closing balance, and the same     *)
(* transactions in the same order with equal date, value_date, amount,      *)
(* debit_credit, reference and description.  The code does not do this, so  *)
(* TLC refutes the statement.                                              *)
(***************************************************************************)
SameLineTransaction(t, u) ==
    /\ t.date = u.date
    /\ t.value_date = u.value_date
    /\ t.amount = u.amount
    /\ t.debit_credit = u.debit_credit
    /\ t.reference = u.reference
    /\ t.description = u.description

C1_LineRoundTrip ==
    pc = "done" =>
        /\ result.status = "ok"
        /\ result.statement.statement_id = stmt.statement_id
        /\ result.statement.account = stmt.account
        /\ result.statement.sequence_number = stmt.sequence_number
        /\ result.statement.currency = stmt.currency
        /\ result.statement.opening_balance = stmt.opening_balance
        /\ result.statement.closing_balance = stmt.closing_balance
        /\ Len(result.statement.transactions) = Len(stmt.transactions)
        /\ \A i \in 1..Len(stmt.transactions) :
               SameLineTransaction(result.statement.transactions[i],
                                   stmt.transactions[i])


(***************************************************************************)
(* Structured round trip.                                                  *)
(***************************************************************************)
SameBalance(a, b) ==
    \/ IsNone(a) /\ IsNone(b)
    \/ /\ IsSome(a) /\ IsSome(b)
       /\ Unwrap(a).balance_type = Unwrap(b).balance_type
       /\ Unwrap(a).amount = Unwrap(b).amount
       /\ Unwrap(a).currency = Unwrap(b).currency
       /\ Unwrap(a).debit_credit = Unwrap(b).debit_credit
       /\ Unwrap(a).date = Unwrap(b).date

SameStructuredTransaction(a, b) ==
    /\ a.reference = b.reference
    /\ a.date = b.date
    /\ a.value_date = b.value_date
    /\ a.amount = b.amount
    /\ a.currency = b.currency
    /\ a.debit_credit = b.debit_credit
    /\ a.description = b.description

\* C2: once a statement has been written in the Structured format and read
\* back, the read succeeds and gives the same statement_id, account, currency,
\* creation/from/to dates, opening and closing balances, and the same
\* transactions in the same order with equal reference, date, value_date,
\* amount, currency, debit_credit and description.
C2_StructuredRoundTrip ==
    (pc = "done" /\ IsSome(document)) =>
        /\ result.status = "ok"
        /\ result.statement.statement_id = stmt.statement_id
        /\ result.statement.account = stmt.account
        /\ result.statement.currency = stmt.currency
        /\ result.statement.creation_date = stmt.creation_date
        /\ result.statement.from_date = stmt.from_date
        /\ result.statement.to_date = stmt.to_date
        /\ SameBalance(result.statement.opening_balance, stmt.opening_balance)
        /\ SameBalance(result.statement.closing_balance, stmt.closing_balance)
        /\ Len(result.statement.transactions) = Len(stmt.transactions)
        /\ \A i \in 1..Len(stmt.transactions) :
              SameStructuredTransaction(result.statement.transactions[i],
                                        stmt.transactions[i])

\* a statement with dates, both balances and two different transactions, one
\* of them without value date, has come back from the round trip
C2_Witness ==
    /\ pc = "done"
    /\ IsSome(document)
    /\ result.status = "ok"
    /\ IsSome(stmt.creation_date) /\ IsSome(stmt.from_date) /\ IsSome(stmt.to_date)
    /\ IsSome(stmt.opening_balance) /\ IsSome(stmt.closing_balance)
    /\ stmt.transactions = <<TxToParty, TxDescribed>>
    /\ Len(result.statement.transactions) = 2

\* C3: once a statement has been written in the Structured format and read
\* back, account_holder and every transaction's counterparty_name,
\* counterparty_account, bank_identifier and additional_info are what they
\* were before serialization.
C3_StructuredEnrichmentRoundTrip ==
    (pc = "done" /\ IsSome(document)) =>
        /\ result.status = "ok"
        /\ result.statement.account_holder = stmt.account_holder
        /\ Len(result.statement.transactions) = Len(stmt.transactions)
        /\ \A i \in 1..Len(stmt.transactions) :
              LET a == result.statement.transactions[i]
                  b == stmt.transactions[i]
              IN /\ a.counterparty_name = b.counterparty_name
                 /\ a.counterparty_account = b.counterparty_account
                 /\ a.bank_identifier = b.bank_identifier
                 /\ a.additional_info = b.additional_info


(***************************************************************************)
(* Tabular round trip.                                                     *)
(***************************************************************************)
\* a statement with at least one transaction has been written and read back
TabularRoundTripDone == pc = "done" /\ Len(stmt.transactions) >= 1

TabularRoundTripHolds ==
    /\ result.status = "ok"
    /\ result.statement.account = stmt.account
    /\ Len(result.statement.transactions) = Len(stmt.transactions)
    /\ \A i \in 1..Len(stmt.transactions) :
          LET a == result.statement.transactions[i]
              b == stmt.transactions[i]
          IN /\ a.amount = b.amount
             /\ a.date = b.date
             /\ a.reference = b.reference
             /\ a.description = b.description
             /\ a.debit_credit = b.debit_credit
             /\ a.counterparty_account = b.counterparty_account

NoPadding(s) == s = <<>> \/ (~IsWhitespace(s[1]) /\ ~IsWhitespace(s[Len(s)]))

\* non-empty text on one line without surrounding whitespace
PlainCell(s) == s # <<>> /\ NoPadding(s) /\ \A i \in 1..Len(s) : s[i] # "\n"

PlainStatement(s) ==
    /\ PlainCell(s.account)
    /\ \A i \in 1..Len(s.transactions) :
          /\ NoPadding(s.transactions[i].reference)
          /\ NoPadding(s.transactions[i].description)
          /\ \/ IsNone(s.transactions[i].counterparty_account)
             \/ PlainCell(Unwrap(s.transactions[i].counterparty_account))

\* C4 (as stated): once any statement with at least one transaction has been
\* written in the Tabular format and read back, the read gives the same number
\* of transactions in the same order, each with equal amount, date, reference,
\* description and debit_credit, and the statement's account and each
\* transaction's counterparty_account are recovered.
C4_TabularRoundTripOfAnyStatement == TabularRoundTripDone => TabularRoundTripHolds

\* C4 (amended): the same, for statements whose account is non-empty one-line
\* text without surrounding whitespace, whose references and descriptions have
\* no surrounding whitespace, and whose counterparty accounts are absent or
\* non-empty one-line text without surrounding whitespace.
C4_TabularRoundTrip ==
    (TabularRoundTripDone /\ PlainStatement(stmt)) => TabularRoundTripHolds

\* a debit without counterparty account followed by a credit with one has come
\* back from the round trip
C4_Witness ==
    /\ TabularRoundTripDone
    /\ PlainStatement(stmt)
    /\ stmt.transactions = <<TxToParty, TxFromParty>>
    /\ Len(result.statement.transactions) = 2


(***************************************************************************)
(* Conversions.                                                            *)
(***************************************************************************)
\* C5: converting Structured->Line a statement that was already converted
\* once gives the once-converted statement again.
C5_StructuredToLineIdempotent ==
    [][(pc = "mt940_once" /\ pc' = "mt940_twice") => result' = result]_vars

\* the description the folding rule gives: the original one, then the
\* additional info if present, then the labelled counterparty name if present,
\* each appended part preceded by " | " exactly when the text before it is
\* not empty
Joined(before, part) ==
    IF before = <<>> THEN part ELSE before \o <<" ", "|", " ">> \o part

FoldedDescription(transaction) ==
    LET with_info == IF IsSome(transaction.additional_info)
                     THEN Joined(transaction.description,
                                 Unwrap(transaction.additional_info))
                     ELSE transaction.description
    IN IF IsSome(transaction.counterparty_name)
       THEN Joined(with_info,
                   <<"C", "o", "u", "n", "t", "e", "r", "p", "a", "r", "t", "y",
                     ":", " ">> \o Unwrap(transaction.counterparty_name))
       ELSE with_info

\* C6: after one Structured->Line conversion every transaction's description
\* is the original description, followed by additional_info if present,
\* followed by "Counterparty: <name>" if counterparty_name is present, with
\* " | " before an appended part exactly when the text so far is non-empty.
C6_FoldingRule ==
    pc = "mt940_once" =>
        /\ Len(result.statement.transactions) = Len(stmt.transactions)
        /\ \A i \in 1..Len(stmt.transactions) :
              result.statement.transactions[i].description
                  = FoldedDescription(stmt.transactions[i])

\* a transaction with all three parts and one with an empty description, an
\* empty additional info and a name have been converted
C6_Witness ==
    /\ pc = "mt940_once"
    /\ Len(stmt.transactions) = 2
    /\ stmt.transactions[1].description # <<>>
    /\ stmt.transactions[1].additional_info = Some(<<"N", "O", "T", "E">>)
    /\ IsSome(stmt.transactions[1].counterparty_name)
    /\ stmt.transactions[2].description = <<>>
    /\ stmt.transactions[2].additional_info = Some(<<>>)
    /\ IsSome(stmt.transactions[2].counterparty_name)
    /\ result.statement.transactions[2].description
           = <<"C", "o", "u", "n", "t", "e", "r", "p", "a", "r", "t", "y", ":", " ",
               "B", "O", "B">>

\* C7: after one Line->Structured conversion every field other than
\* creation_date is unchanged, a present creation_date is unchanged, and an
\* absent creation_date has become present.
C7_LineToStructuredIdentity ==
    pc = "camt053_once" =>
        /\ [result.statement EXCEPT !.creation_date = stmt.creation_date] = stmt
        /\ IsSome(stmt.creation_date) =>
               result.statement.creation_date = stmt.creation_date
        /\ IsSome(result.statement.creation_date)

\* a statement without creation date, with an opening balance and two
\* transactions, has been converted and carries one of today's dates
C7_Witness ==
    /\ pc = "camt053_once"
    /\ IsNone(stmt.creation_date)
    /\ IsSome(stmt.opening_balance)
    /\ Len(stmt.transactions) = 2
    /\ result.statement.creation_date \in {Some(d) : d \in Today}
    /\ result.statement.transactions = stmt.transactions


(***************************************************************************)
(* Line-format parsing: required lines.                                    *)
(***************************************************************************)
\* no line with the given tag has content other than blanks
NoContentFor(tag) ==
    \A i \in 1..Len(lines) :
        StartsWith(lines[i], tag) => Trim(SubSeq(lines[i], 5, Len(lines[i]))) = <<>>

\* every balance line and every :61: line of the document parses on its own
OtherLinesWellFormed ==
    \A i \in 1..Len(lines) :
        /\ StartsWith(lines[i], Tag60) => parse_balance(lines[i], "Opening").ok
        /\ StartsWith(lines[i], Tag62) => parse_balance(lines[i], "Closing").ok
        /\ StartsWith(lines[i], Tag61) => parse_transaction_line(lines[i], <<>>).ok

\* C11: when Line-format parsing has ended, a document without :20: content
\* or without :25: content has given an error, that error is MissingField when
\* every balance and transaction line is well-formed, and a returned Statement
\* has non-empty statement_id and account.
C11_RequiredLines ==
    pc = "done" =>
        /\ (NoContentFor(Tag20) \/ NoContentFor(Tag25)) => result.status = "err"
        /\ ((NoContentFor(Tag20) \/ NoContentFor(Tag25)) /\ OtherLinesWellFormed)
               => result.error = "MissingField"
        /\ result.status = "ok" =>
               /\ result.statement.statement_id # <<>>
               /\ result.statement.account # <<>>

\* a document with a :20: line, no :25: line and a transaction has been
\* scanned to its end and refused
C11_Witness ==
    /\ pc = "done"
    /\ ~NoContentFor(Tag20)
    /\ NoContentFor(Tag25)
    /\ Len(transactions) >= 1
    /\ result.status = "err"
    /\ result.error = "MissingField"


(***************************************************************************)
(* Line-format dates: the two-digit year.                                  *)
(***************************************************************************)
\* the year a two-digit value stands for
PivotYear(yy) == IF yy <= 49 THEN 2000 + yy ELSE 1900 + yy

\* the field is six digits and names an existing day of its pivot year
IsDateOfPivotYear(field) ==
    /\ Len(field) = 6
    /\ \A i \in 1..6 : field[i] \in {"0", "1", "2", "3", "4", "5", "6", "7", "8", "9"}
    /\ IsSome(FromYmdOpt(PivotYear(DigitsValue(SubSeq(field, 1, 2))),
                         DigitsValue(SubSeq(field, 3, 4)),
                         DigitsValue(SubSeq(field, 5, 6))))

\* C12: a parsed YYMMDD field with a valid month and day gives the year
\* 2000+yy for yy in 0..49 and 1900+yy for yy in 50..99; a formatted date
\* carries year mod 100, and a date of the years 1950..2049 that was formatted
\* and parsed comes back unchanged.
C12_TwoDigitYearPivot ==
    pc = "done" =>
        /\ IsDateOfPivotYear(text) =>
               output = Some(Ok(Date(PivotYear(DigitsValue(SubSeq(text, 1, 2))),
                                     DigitsValue(SubSeq(text, 3, 4)),
                                     DigitsValue(SubSeq(text, 5, 6)))))
        /\ IsSome(input) =>
               /\ DigitsValue(SubSeq(text, 1, 2)) = Unwrap(input).year % 100
               /\ Unwrap(input).year \in 1950..2049 => output = Some(Ok(Unwrap(input)))

\* 31 December 2049 has been written as "491231" and read back
C12_Witness ==
    /\ pc = "done"
    /\ input = Some(Date(2049, 12, 31))
    /\ text = <<"4", "9", "1", "2", "3", "1">>
    /\ output = Some(Ok(Date(2049, 12, 31)))


(***************************************************************************)
(* Parsed transactions: reference and amount.                              *)
(***************************************************************************)
\* C13: every transaction of a Statement returned by a parse operation has a
\* non-empty reference (checked here on the Tabular parser, whose rows may
\* leave the reference column empty).
C13_ReferenceNeverEmpty ==
    Parsed =>
        \A i \in 1..Len(result.statement.transactions) :
            result.statement.transactions[i].reference # <<>>



\* C14: every transaction of a Statement returned by a parse operation has a
\* non-negative amount: a sign in the source text never reaches the amount
\* (checked here on the Line parser's :61: lines).
C14_AmountNeverNegative ==
    Parsed =>
        \A i \in 1..Len(result.statement.transactions) :
            LET amount == result.statement.transactions[i].amount
            IN  ~(amount.neg /\ amount.mant > 0)



(***************************************************************************)
(* Structured parsing: balances.                                           *)
(***************************************************************************)
\* the <Bal> element a parsed balance comes from: the last one of `bal`
\* whose code is one of `codes`
LastBalanceXml(bal, codes) ==
    LET at == {i \in 1..Len(bal) : bal[i].cd \in codes}
    IN bal[CHOOSE i \in at : \A j \in at : j <= i]

HasBalanceXml(bal, codes) == \E i \in 1..Len(bal) : bal[i].cd \in codes

\* a balance read from an amount element without a currency of its own
\* carries the statement's currency
FilledFromStatement(balance, bal, codes, s) ==
    (HasBalanceXml(bal, codes) /\ IsNone(AmountCcy(LastBalanceXml(bal, codes).amt)))
        => /\ IsSome(balance)
           /\ Unwrap(balance).currency = s.currency

\* C15: in a Statement returned by the Structured parser, a balance whose
\* amount element has no currency attribute of its own has the statement's
\* account currency.
C15_BalanceCurrencyFromStatement ==
    Parsed =>
        LET bal == Unwrap(document).stmt.bal
            s == result.statement
        IN /\ FilledFromStatement(s.opening_balance, bal, {Opbd, Opav}, s)
           /\ FilledFromStatement(s.closing_balance, bal, {Clbd, Clav}, s)



(***************************************************************************)
(* Line-format parsing: currency.                                          *)
(***************************************************************************)
\* C16: in a Statement returned by the Line parser the statement's currency
\* is the opening balance's and every transaction carries the statement's
\* currency, wherever the :60x: line stands relative to the :61: lines.
C16_CurrencyFromOpeningBalance ==
    Parsed =>
        LET s == result.statement
        IN /\ IsSome(s.opening_balance)
                => s.currency = Unwrap(s.opening_balance).currency
           /\ \A i \in 1..Len(s.transactions) :
                 s.transactions[i].currency = s.currency



(***************************************************************************)
(* Format names.                                                           *)
(***************************************************************************)
LineNames == {<<"m", "t", "9", "4", "0">>, <<"m", "t", "-", "9", "4", "0">>,
              <<"s", "w", "i", "f", "t">>}
StructuredNames == {<<"c", "a", "m", "t", "0", "5", "3">>,
                    <<"c", "a", "m", "t", ".", "0", "5", "3">>,
                    <<"c", "a", "m", "t">>, <<"x", "m", "l">>}
TabularNames == {<<"c", "s", "v">>}

\* `name` is one of `names` up to the case of its letters
IsNameOf(name, names) ==
    \E n \in names :
        /\ Len(name) = Len(n)
        /\ \A i \in 1..Len(n) : name[i] = n[i] \/ name[i] = ToUpperChar(n[i])

\* C17: a format name is accepted, whatever the case of its letters, exactly
\* when it is mt940, mt-940 or swift (Line), camt053, camt.053, camt or xml
\* (Structured), or csv (Tabular); any other text gives the unrecognized-format
\* error carrying the text as it was given.
C17_FormatFromName ==
    (pc = "done" /\ IsSome(output)) =>
        LET name == Unwrap(input)
            format == Unwrap(output)
        IN /\ format = Ok("Mt940") <=> IsNameOf(name, LineNames)
           /\ format = Ok("Camt053") <=> IsNameOf(name, StructuredNames)
           /\ format = Ok("Csv") <=> IsNameOf(name, TabularNames)
           /\ ~IsNameOf(name, LineNames \cup StructuredNames \cup TabularNames)
                 => format = Err(InvalidFormat(name))

C17_Witness ==
    /\ pc = "done"
    /\ input = Some(<<"C", "a", "M", "t", ".", "0", "5", "3">>)
    /\ output = Some(Ok("Camt053"))



\* the <Bal> element the balance loop is about to read
NextBalanceXml == Unwrap(document).stmt.bal[current_line + 1]

\* one iteration of the balance loop has read NextBalanceXml
BalanceRead == pc = "from_document_bal" /\ current_line' = current_line + 1

\* the balance loop has stopped with an error at NextBalanceXml
BalanceRejected == pc = "from_document_bal" /\ pc' = "done"

\* the statement's balance in `slot` after the step is the one read, of type bt
Stored(slot, bt) ==
    /\ IsSome(slot)
    /\ Unwrap(slot).balance_type = bt
    /\ Unwrap(slot).amount = DecimalFromStr(NextBalanceXml.amt.value).val

\* C18: the balance codes OPBD and OPAV give an Opening balance, CLBD and CLAV
\* a Closing one, PRCD and any other code an Intermediate one; a balance is
\* never rejected for its code, and an Intermediate balance leaves the
\* statement's opening and closing balances as they were.
C18_BalanceCodeMapping ==
    [][/\ BalanceRead =>
            LET cd == NextBalanceXml.cd
            IN /\ cd \in {Opbd, Opav} =>
                     /\ Stored(statement'.opening_balance, "Opening")
                     /\ statement'.closing_balance = statement.closing_balance
               /\ cd \in {Clbd, Clav} =>
                     /\ Stored(statement'.closing_balance, "Closing")
                     /\ statement'.opening_balance = statement.opening_balance
               /\ cd \notin {Opbd, Opav, Clbd, Clav} =>
                     /\ camt_parse_balance(NextBalanceXml).val.balance_type
                            = "Intermediate"
                     /\ statement'.opening_balance = statement.opening_balance
                     /\ statement'.closing_balance = statement.closing_balance
       /\ BalanceRejected =>
            \A cd \in {Opbd, Opav, Clbd, Clav, Prcd} :
                ~camt_parse_balance([NextBalanceXml EXCEPT !.cd = cd]).ok
      ]_vars

\* an opening balance has been stored and a balance with an unknown code read
\* after it
C18_Witness ==
    /\ pc = "from_document_bal"
    /\ current_line = 2
    /\ Unwrap(document).stmt.bal[1].cd = Opbd
    /\ Unwrap(document).stmt.bal[2].cd \notin {Opbd, Opav, Clbd, Clav, Prcd}
    /\ IsSome(statement.opening_balance)
    /\ Unwrap(statement.opening_balance).amount = Dec(FALSE, 1, 0)



(***************************************************************************)
(* Tabular parsing: the rows read so far.                                  *)
(***************************************************************************)
\* the rows the row loop has gone through
RowsRead == SubSeq(records, 1, current_line)

\* a row that gives a transaction: it has a date and an amount
HasTransaction(record) ==
    /\ Trim(record.date) # <<>>
    /\ record.debit_amount # <<>> \/ record.credit_amount # <<>>

\* the account column of the statement's own side: the debit account of a
\* row with a debit amount, the credit account otherwise
OwnAccountCell(record) ==
    IF record.debit_amount # <<>> THEN record.debit_account
    ELSE record.credit_account

\* the first sub-line of a cell, without surrounding white space
FirstSubLine(cell) ==
    LET feeds == {i \in 1..Len(cell) : cell[i] = "\n"}
    IN Trim(IF feeds = {} THEN cell
            ELSE SubSeq(cell, 1, (CHOOSE i \in feeds : \A j \in feeds : i <= j) - 1))

\* the account of the first of `owners`, the rows taken to name the own
\* account; empty when there is none
AccountOfFirst(rows, owners) ==
    IF owners = {} THEN <<>>
    ELSE FirstSubLine(OwnAccountCell(rows[CHOOSE i \in owners :
                                              \A j \in owners : i <= j]))

\* the account held while the rows are read, and the account of the
\* Statement returned, are the one `inferred` from the rows
AccountIs(inferred) ==
    /\ pc = "read_csv" => account = inferred
    /\ Parsed => result.statement.account
                    = (IF inferred = <<>> THEN Unknown ELSE inferred)

\* C19 as stated: the statement's account is the first sub-line of the own
\* account cell of the first row where that cell is populated, and no later
\* row changes it.
C19_AccountOfFirstPopulatedRow ==
    AccountIs(AccountOfFirst(RowsRead,
                  {i \in 1..Len(RowsRead) :
                      /\ HasTransaction(RowsRead[i])
                      /\ OwnAccountCell(RowsRead[i]) # <<>>}))

\* C19: the statement's account is the first sub-line of the own account
\* cell of the first row where that sub-line is not blank, and no later row
\* changes it; a Statement parsed without any such row has the account
\* UNKNOWN.
C19_AccountOfFirstNamedRow ==
    AccountIs(AccountOfFirst(RowsRead,
                  {i \in 1..Len(RowsRead) :
                      /\ HasTransaction(RowsRead[i])
                      /\ FirstSubLine(OwnAccountCell(RowsRead[i])) # <<>>}))

\* the second row carries another own account; the first row's is kept
C19_Witness ==
    /\ Parsed
    /\ records = <<RowDebitRich, RowCreditBoth>>
    /\ result.statement.account = <<"4", "0", "7">>



(***************************************************************************)
(* Tabular parsing: one row.                                               *)
(***************************************************************************)
\* the row loop has gone past Row without stopping
RowRead == ReadingRow /\ current_line' = current_line + 1

\* the account named by a cell, if the cell has text
AccountIn(cell) == IF cell = <<>> THEN None ELSE Some(FirstSubLine(cell))

\* the step has added one transaction of direction dc with the given
\* counterparty account
Pushed(dc, counterparty_account) ==
    /\ Len(transactions') = Len(transactions) + 1
    /\ SubSeq(transactions', 1, Len(transactions)) = transactions
    /\ transactions'[Len(transactions')].debit_credit = dc
    /\ transactions'[Len(transactions')].counterparty_account = counterparty_account

\* C20: a row with an empty date gives no transaction and no error; a row
\* with a date and an amount in the debit column gives a Debit transaction
\* whose counterparty account is read from the credit-account column; a row
\* with a date and an amount in the credit column only gives a Credit
\* transaction whose counterparty account is read from the debit-account
\* column.
C20_RowClassification ==
    [][/\ (ReadingRow /\ Trim(Row.date) = <<>>) =>
            /\ transactions' = transactions
            /\ current_line' = current_line + 1
            /\ pc' = "read_csv"
            /\ result' = result
       /\ (RowRead /\ Trim(Row.date) # <<>> /\ Row.debit_amount # <<>>) =>
            Pushed("Debit", AccountIn(Row.credit_account))
       /\ (RowRead /\ Trim(Row.date) # <<>> /\ Row.debit_amount = <<>>
             /\ Row.credit_amount # <<>>) =>
            Pushed("Credit", AccountIn(Row.debit_account))
      ]_vars

\* a blank row with an amount, then a debit row with both amounts and both
\* accounts, have been read
C20_Witness ==
    /\ Parsed
    /\ records = <<RowBlank, RowDebitSecondLine>>
    /\ Len(result.statement.transactions) = 1
    /\ result.statement.transactions[1].debit_credit = "Debit"
    /\ result.statement.transactions[1].counterparty_account = Some(<<"D", "E", "8">>)



\* the row loop has added a transaction for Row
RowPushed == RowRead /\ Len(transactions') = Len(transactions) + 1

\* the cells of `record` that hold an account in three or more sub-lines
NamedCells(record) ==
    {cell \in {record.debit_account, record.credit_account} :
        Len(ReadLines(cell)) >= 3}

\* C21: the counterparty name of a Tabular transaction is the third sub-line
\* of an account cell that has at least three sub-lines; when no account cell
\* has three it is the first line of the description, and absent when the
\* description is empty.
C21_CounterpartyName ==
    [][RowPushed =>
          LET name == transactions'[Len(transactions')].counterparty_name
          IN IF NamedCells(Row) # {}
             THEN \E cell \in NamedCells(Row) : name = Some(Trim(ReadLines(cell)[3]))
             ELSE IF Row.description # <<>>
             THEN name = Some(Trim(ReadLines(Row.description)[1]))
             ELSE name = None
      ]_vars



(***************************************************************************)
(* Tabular parsing: the bank cell.                                         *)
(***************************************************************************)
\* the positions just after the first occurrence of `marker` in `cell`
AfterMarker(cell, marker) ==
    LET at == {i \in 1..(Len(cell) - Len(marker) + 1) :
                  SubSeq(cell, i, i + Len(marker) - 1) = marker}
    IN {i + Len(marker) : i \in {i \in at : \A j \in at : i <= j}}

\* `token` is the white-space delimited token of `cell` that starts at or
\* after position `from` with only white space in between; the empty text
\* when nothing but white space follows
IsTokenAt(token, cell, from) ==
    \E start \in from..(Len(cell) + 1) :
        /\ \A i \in from..(start - 1) : IsWhitespace(cell[i])
        /\ start + Len(token) - 1 <= Len(cell)
        /\ token = SubSeq(cell, start, start + Len(token) - 1)
        /\ \A i \in 1..Len(token) : ~IsWhitespace(token[i])
        /\ start + Len(token) <= Len(cell) => IsWhitespace(cell[start + Len(token)])
        /\ token = <<>> => start = Len(cell) + 1

\* C22: the bank identifier of a cell that holds the Cyrillic or the English
\* marker is the token that follows the marker; of a cell without marker the
\* whole cell, trimmed; an empty cell has no bank identifier.
C22_BankIdentifier ==
    (pc = "done" /\ IsSome(input)) =>
        LET cell == Unwrap(input)
            after == AfterMarker(cell, BicMarkerLocal)
                         \cup AfterMarker(cell, BicMarkerAscii)
        IN IF cell = <<>> THEN output = None
           ELSE /\ IsSome(output)
                /\ IF after # {}
                   THEN \E from \in after : IsTokenAt(Unwrap(output), cell, from)
                   ELSE Unwrap(output) = Trim(cell)

C22_Witness ==
    /\ pc = "done"
    /\ input = Some(<<"A", "O", " ", "B", "I", "C", " ", "0", "4", "4", " ", "A", "O">>)
    /\ output = Some(<<"0", "4", "4">>)



(***************************************************************************)
(* Tabular parsing: the date cell.                                         *)
(***************************************************************************)
\* what the four patterns make of a text, in the order day.month.year,
\* year-month-day, day/month/year, month/day/year
DateReadings(t) ==
    <<ParseDateFields(t, ".", 3, 2, 1), ParseDateFields(t, "-", 1, 2, 3),
      ParseDateFields(t, "/", 3, 2, 1), ParseDateFields(t, "/", 3, 1, 2)>>

\* C23: the date of a Tabular cell is the reading of the first of the four
\* patterns that matches; a date valid day-first and month-first is read
\* day-first, month-first is used only when day-first fails, and a text no
\* pattern matches gives InvalidDate.
C23_DatePatternOrder ==
    (pc = "done" /\ IsSome(input)) =>
        LET readings == DateReadings(Trim(Unwrap(input)))
            matching == {k \in 1..4 : IsSome(readings[k])}
            date == Unwrap(output)
        IN /\ matching = {} => date = Err("InvalidDate")
           /\ matching # {} =>
                 date = Ok(Unwrap(readings[CHOOSE k \in matching :
                                              \A j \in matching : k <= j]))
           /\ {3, 4} \subseteq matching => date = Ok(Unwrap(readings[3]))
           /\ (date.ok /\ 4 \in matching /\ date.val = Unwrap(readings[4]))
                 => (3 \notin matching \/ readings[3] = readings[4])

\* 02/03/2024 is the second of March
C23_Witness ==
    /\ pc = "done"
    /\ input = Some(<<"0", "2", "/", "0", "3", "/", "2", "0", "2", "4">>)
    /\ output = Some(Ok(Date(2024, 3, 2)))



(***************************************************************************)
(* Comparer.                                                               *)
(***************************************************************************)
\* the positions where the two statements' transactions are not the same
DifferingPositions ==
    {i \in 1..Len(stmt.transactions) : stmt.transactions[i] # statement.transactions[i]}

\* the two transactions at position i are the same but for their amounts,
\* which are different numbers
DifferInAmountOnly(i) ==
    /\ [stmt.transactions[i] EXCEPT !.amount = statement.transactions[i].amount]
           = statement.transactions[i]
    /\ ~DecimalEq(stmt.transactions[i].amount, statement.transactions[i].amount)

\* the two statements are the same but for what their transactions hold
SameButTransactions ==
    /\ Len(stmt.transactions) = Len(statement.transactions)
    /\ [stmt EXCEPT !.transactions = statement.transactions] = statement

\* C24: compared, two Statements that differ only in the amount of the
\* transaction at position i give a report with exactly one difference
\* line, the "amount differs" line citing i (counted from 1) and both
\* amounts; two equal Statements give no difference line.
C24_OneAmountDifference ==
    (pc = "done" /\ IsSome(output) /\ SameButTransactions) =>
        /\ \A i \in DifferingPositions :
              (DifferingPositions = {i} /\ DifferInAmountOnly(i)) =>
                  Unwrap(output)
                      = <<"D", "i", "f", "f", "e", "r", "e", "n", "c", "e", "s", " ",
                          "f", "o", "u", "n", "d", ":", "\n",
                          " ", " ", "-", " ",
                          "T", "r", "a", "n", "s", "a", "c", "t", "i", "o", "n", " ">>
                        \o NatToStr(i)
                        \o <<" ", "a", "m", "o", "u", "n", "t", " ",
                             "d", "i", "f", "f", "e", "r", "s", ":", " ">>
                        \o DecimalToString(stmt.transactions[i].amount)
                        \o <<" ", "v", "s", " ">>
                        \o DecimalToString(statement.transactions[i].amount)
                        \o <<"\n">>
        /\ DifferingPositions = {} =>
              \A k \in 1..Len(Unwrap(output)) : Unwrap(output)[k] # "\n"

\* the second transactions are 5 and 7
C24_Witness ==
    /\ pc = "done"
    /\ stmt.transactions = <<TxLater, TxFive>>
    /\ statement.transactions = <<TxLater, TxSeven>>
    /\ stmt.opening_balance = statement.opening_balance
    /\ IsSome(stmt.opening_balance)
    /\ IsSome(output)



(***************************************************************************)
(* Structured round trip: the sequence number.                             *)
(***************************************************************************)
\* the statement has gone through to_document and from_document
StructuredRoundTripDone == Parsed /\ IsSome(document) /\ stmt # EmptyStatement

\* a text of digits only, standing for a number up to u32::MAX
IsUnsignedDigits(s) == AllDigits(s) /\ FitsU32(s)

\* digits without a leading zero (the text 0 itself included)
IsCanonicalNumber(s) == IsUnsignedDigits(s) /\ (Len(s) = 1 \/ Head(s) # "0")

ValueDateOf(content) ==
    LET yy == DigitsValue(SubSeq(content, 1, 2))
    IN Date(IF yy < 50 THEN 2000 + yy ELSE 1900 + yy,
            DigitsValue(SubSeq(content, 3, 4)), DigitsValue(SubSeq(content, 5, 6)))

MarkOf(c) == IF c = "D" THEN "Debit" ELSE "Credit"

\* C26: a well-formed :61: line without entry date (the D/C mark right after
\* the value date), whatever its amount, is parsed, with the booking date
\* equal to the value date and the direction given by the mark; with an
\* entry date the booking date is that month and day in the value date's
\* year.
C26_EntryDateOptional ==
    (pc = "done" /\ IsSome(input)) =>
        LET content == SubSeq(Unwrap(input), 5, Len(Unwrap(input)))
            transaction == Unwrap(output)
        IN IF content[7] \in {"C", "D"}
           THEN /\ transaction.ok
                /\ transaction.val.date = ValueDateOf(content)
                /\ transaction.val.value_date = Some(ValueDateOf(content))
                /\ transaction.val.debit_credit = MarkOf(content[7])
           ELSE /\ transaction.ok
                /\ transaction.val.value_date = Some(ValueDateOf(content))
                /\ transaction.val.date
                     = Date(ValueDateOf(content).year,
                            DigitsValue(SubSeq(content, 7, 8)),
                            DigitsValue(SubSeq(content, 9, 10)))
                /\ transaction.val.debit_credit = MarkOf(content[11])



(***************************************************************************)
(* Line-format parsing: the scan pointer.                                  *)
(***************************************************************************)
\* one iteration of the scan loop that does not return
ScanIteration == pc = "parse_mt940" /\ pc' = "parse_mt940"

\* C27: the Line-format scan ends on every document, and goes forward only:
\* each iteration moves the scan pointer to a later line, and an iteration
\* on a :86: line moves it past the continuation lines that follow, so that
\* no line is looked at as a top-level line twice and no consumed
\* continuation line is looked at as one at all.
C27_SingleForwardPass ==
    /\ [][ScanIteration =>
            /\ current_line' > current_line
            /\ current_line' <= Len(lines)
            /\ Scanning("86") =>
                  current_line' = current_line + 1 + ContinuationCount(current_line + 1)
         ]_vars
    /\ <>(pc = "done")

\* a :86: line with two continuation lines has been scanned to the end
C27_Witness ==
    /\ Parsed
    /\ lines = <<LineId, LineAcct, LineOpeningBrief, LineTxBrief, LineInfoA, LineContA, LineContA>>
    /\ current_line = Len(lines)


(***************************************************************************)
(* Structured parsing: the counterparty of an entry.                       *)
(***************************************************************************)
NextEntryXml == Unwrap(document).stmt.ntry[current_line + 1]

\* one iteration of the entry loop has read NextEntryXml
EntryRead == pc = "from_document_ntry" /\ current_line' = current_line + 1

\* the <RltdPties> of NextEntryXml, when the entry has one
HasParties ==
    /\ IsSome(TxDetails(NextEntryXml))
    /\ IsSome(Unwrap(TxDetails(NextEntryXml)).rltd_pties)
Parties == Unwrap(Unwrap(TxDetails(NextEntryXml)).rltd_pties)

\* the name a <Dbtr> or <Cdtr> element supplies, the account id a <DbtrAcct>
\* or <CdtrAcct> element supplies; none when the element is absent
NameSupplied(party) == IF IsSome(party) THEN Unwrap(party).nm ELSE None
AccountSupplied(acct) == IF IsSome(acct) THEN AccountIdOf(Unwrap(acct).id) ELSE None

\* `got` is what the one side supplies whenever the other side supplies none
FromEitherSide(got, debtor, creditor) ==
    /\ IsSome(debtor) /\ IsNone(creditor) => got = debtor
    /\ IsSome(creditor) /\ IsNone(debtor) => got = creditor

\* C28: in Structured parsing the counterparty name and account of an entry
\* come from the creditor side when the debtor side supplies none and from
\* the debtor side when the creditor side supplies none; a debtor with a
\* name next to a creditor element without one gives the debtor's name.
\* The code lets a creditor element that is present overwrite the debtor's
\* value even with nothing, so TLC refutes this statement.
C28_CounterpartyFromEitherSide ==
    [][EntryRead /\ HasParties =>
          LET pushed == statement'.transactions[Len(statement'.transactions)]
          IN /\ FromEitherSide(pushed.counterparty_name,
                               NameSupplied(Parties.dbtr), NameSupplied(Parties.cdtr))
             /\ FromEitherSide(pushed.counterparty_account,
                               AccountSupplied(Parties.dbtr_acct),
                               AccountSupplied(Parties.cdtr_acct))]_vars


(***************************************************************************)
(* Conversions: what Structured->Line leaves alone.                        *)
(***************************************************************************)
\* transaction `after` is transaction `before` but for its description
SameButDescription(before, after) ==
    [after EXCEPT !.description = before.description] = before

\* C29: one Structured->Line conversion changes nothing but transaction
\* descriptions: the statement-level fields and the number and order of the
\* transactions are the same, every transaction keeps all its other fields
\* (additional_info and counterparty_name stay as they were), and a
\* transaction with neither additional_info nor counterparty_name keeps its
\* description too.
C29_OnlyDescriptionsChange ==
    pc = "mt940_once" =>
        LET before == stmt.transactions
            after == result.statement.transactions
        IN /\ [result.statement EXCEPT !.transactions = before] = stmt
           /\ Len(after) = Len(before)
           /\ \A i \in 1..Len(before) :
                 /\ SameButDescription(before[i], after[i])
                 /\ IsNone(before[i].additional_info)
                       /\ IsNone(before[i].counterparty_name)
                    => after[i] = before[i]

\* a described transaction with neither, then one with both, have been
\* converted: the first is as it was, the second has a longer description
\* and still carries its additional info and its name
C29_Witness ==
    /\ pc = "mt940_once"
    /\ IsSome(stmt.opening_balance)
    /\ Len(stmt.transactions) = 2
    /\ stmt.transactions[1].description # <<>>
    /\ IsNone(stmt.transactions[1].additional_info)
    /\ IsNone(stmt.transactions[1].counterparty_name)
    /\ result.statement.transactions[1] = stmt.transactions[1]
    /\ result.statement.transactions[2].additional_info = Some(<<"N", "O", "T", "E">>)
    /\ result.statement.transactions[2].counterparty_name = Some(<<"B", "O", "B">>)
    /\ result.statement.transactions[2].description # stmt.transactions[2].description


(***************************************************************************)
(* Formats: extension and name.                                            *)
(***************************************************************************)
\* C30: for each of the three formats, the format's extension is a name of
\* that format (parsing it succeeds and gives the format back), and it is the
\* extension of no other format.
C30_ExtensionRoundTrip ==
    [][pc = "from_extension" =>
          /\ output' = output
          /\ Unwrap(output').ok
          /\ \A other \in Formats \ {Unwrap(output).val} : extension(other) # text
      ]_vars

\* the extension of the format named "CaMt.053" has been taken and parsed
C30_Witness ==
    /\ pc = "done"
    /\ Unwrap(input) = <<"C", "a", "M", "t", ".", "0", "5", "3">>
    /\ output = Some(Ok("Camt053"))
    /\ text = <<"x", "m", "l">>

=============================================================================
